---- MODULE Spec2Model ----
(***************************************************************************)
(* A model of notion_sync.py: MemoryParser (document scan and dedup),      *)
(* MarkdownToNotion (line-wise block conversion), NotionClient (requests   *)
(* against the remote store) and SyncOrchestrator (the batch loop).        *)
(*                                                                         *)
(* Text is a sequence of one-character strings, so that startswith, strip, *)
(* split, join, slicing and len are computed as Python computes them.      *)
(* Python indexes from 0, the model from 1.                                *)
(***************************************************************************)
EXTENDS Integers, Sequences, FiniteSets, TLC

VARIABLES
    \* MarkdownToNotion.convert
    cText,      \* the argument text
    cLines,     \* lines = text.split('\n')
    cI,         \* the loop index i (1-based)
    cBlocks,    \* blocks
    cIter,      \* number of loop iterations executed so far
    cPc,        \* "idle" | "loop" | "done"
    \* MemoryParser
    pPhase,          \* "memory" | "memory_scan" | "daily" | "daily_scan" | "dedup" | "done"
    pDay,            \* the i of the loop over range(days_back)
    pN,              \* number of lines scanned so far, over all files
    pFileLines,      \* number of lines scanned of the file being scanned
    current_section, \* section title, <<>> for None
    current_entry,   \* the open entry, NoEntry for None
    entry_buffer,    \* body lines collected for the open entry
    all_entries,     \* entries of parse_memory_file followed by those of parse_daily_files
    unique_entries,  \* the result of extract_all_entries
    \* history of the scan, kept for stating properties
    gSectionOk,      \* the last level-2 heading of this file is whitelisted
    gHeads,          \* line numbers of the level-3 headings scanned under a whitelisted section
    gGated,          \* line numbers of the level-3 headings scanned elsewhere
    gClosed,         \* a level-2 heading was scanned since current_entry was opened
    \* SyncOrchestrator.sync and the remote store
    sEntries,   \* entries, the result of extract_all_entries (after [:limit])
    dry_run,    \* self.dry_run of the orchestrator
    sRun,       \* number of the sync run, 1 for the first
    sIdx,       \* position in entries of the entry being processed
    sPc,        \* "lookup" | "prepare" | "dispatch" | "tally" | "done" | "hung" | "idle"
    existing_page_id,  \* result of the lookup of process_entry, 0 for None
    properties, \* the properties built by process_entry
    children,   \* the blocks built by process_entry, <<>> for None
    page_id,    \* what process_entry returned, 0 for None
    stats,      \* the tally of the run
    pages,      \* the remote store: pages[id] is the record with that id
    \* history of the run, kept for stating properties
    gReqs,      \* the requests made for the entry last processed, in order
    gWrites,    \* per entry, the write requests dispatched in this run
    gDispatch,  \* per entry, how process_entry ended: "none" | "create_ok" | "update_ok" |
                \* "create_failed" | "update_failed" | "raised"
    gTally,     \* per entry, the count sync incremented: "none" or a key of stats
    gFaultKinds, \* per entry, the ways its requests failed in this run
    gProcessed, \* per entry, how many times process_entry was started in this run
    gFaults,    \* number of requests that failed so far, over all runs
    \* one call of a function of the emission path or of the classifier
    fIn,        \* the arguments of the call
    fOut,       \* what the call returned
    fPc         \* "in" before the call, then the name of the branch that returned

convVars == <<cText, cLines, cI, cBlocks, cIter, cPc>>

parseVars == <<pPhase, pDay, pN, pFileLines, current_section, current_entry, entry_buffer,
               all_entries, unique_entries, gSectionOk, gHeads, gGated,
               gClosed>>

syncVars == <<sEntries, dry_run, sRun, sIdx, sPc, existing_page_id, properties, children,
              page_id, stats, pages, gReqs, gWrites, gDispatch, gTally, gFaultKinds,
              gProcessed, gFaults>>

funVars == <<fIn, fOut, fPc>>

vars == <<cText, cLines, cI, cBlocks, cIter, cPc,
          pPhase, pDay, pN, pFileLines, current_section, current_entry, entry_buffer,
          all_entries, unique_entries, gSectionOk, gHeads, gGated, gClosed,
          sEntries, dry_run, sRun, sIdx, sPc, existing_page_id, properties, children,
          page_id, stats, pages, gReqs, gWrites, gDispatch, gTally, gFaultKinds,
          gProcessed, gFaults, fIn, fOut, fPc>>

-----------------------------------------------------------------------------
(* Bounds of the model *)

\* longest run of lines drawn from the core line kinds
MaxConvLines == 5
\* longest run of lines drawn from all line kinds
MaxMixedLines == 3
\* number of lines scanned by one extraction, over all files
MaxLines == 6
\* days_back: the number of daily files looked for
DaysBack == 1
\* number of entries of a sync run
MaxEntries == 2
\* number of sync runs made one after the other over the same entries
MaxRuns == 2
\* number of requests that fail, over all runs
MaxFaults == 1
\* max_len of the calls of _truncate_text on enumerated texts
SmallMax == 5
\* length of the enumerated texts
SmallLen == 7
\* number of entries given to the dedup loop on its own
MaxDedupEntries == 3

-----------------------------------------------------------------------------
(* Python str operations *)

Min(a, b) == IF a <= b THEN a ELSE b
Max(a, b) == IF a >= b THEN a ELSE b

NL == "\n"

\* str.isspace() for the characters of the model's alphabet
IsSpace(c) == c \in {" ", "\t", "\n"}

IsDigit(c) == c \in {"0", "1", "2", "3", "4", "5", "6", "7", "8", "9"}

\* s[:n]
Take(s, n) == SubSeq(s, 1, Min(n, Len(s)))

\* s[n:]
Drop(s, n) == SubSeq(s, n + 1, Len(s))

\* [x] * n
Rep(x, n) == [k \in 1..n |-> x]

\* s.startswith(p)
StartsWith(s, p) == Len(s) >= Len(p) /\ SubSeq(s, 1, Len(p)) = p

\* the least element of a non-empty set of integers
Least(S) == CHOOSE m \in S : \A j \in S : m <= j

\* s.rstrip()
RStrip(s) ==
    LET n    == Len(s)
        \* distances from the end of the characters that are kept
        back == {n - k : k \in {j \in 1..n : ~IsSpace(s[j])}}
    IN  IF n = 0 \/ ~IsSpace(s[n]) THEN s
        ELSE IF back = {} THEN <<>>
        ELSE SubSeq(s, 1, n - Least(back))

\* s.lstrip()
LStrip(s) ==
    LET keep == {k \in 1..Len(s) : ~IsSpace(s[k])}
    IN  IF s = <<>> \/ ~IsSpace(s[1]) THEN s
        ELSE IF keep = {} THEN <<>>
        ELSE SubSeq(s, Least(keep), Len(s))

\* s.strip()
Strip(s) == LStrip(RStrip(s))

\* sub in s
Contains(s, sub) ==
    \E k \in 0..(Len(s) - Len(sub)) : SubSeq(s, k + 1, k + Len(sub)) = sub

\* the capital letters, and the small letter of each
LowerOf ==
    [c \in {"A", "B", "C", "D", "E", "F", "G", "H", "I", "J", "K", "L", "M",
            "N", "O", "P", "Q", "R", "S", "T", "U", "V", "W", "X", "Y", "Z"} |->
        CASE c = "A" -> "a" [] c = "B" -> "b" [] c = "C" -> "c" [] c = "D" -> "d"
          [] c = "E" -> "e" [] c = "F" -> "f" [] c = "G" -> "g" [] c = "H" -> "h"
          [] c = "I" -> "i" [] c = "J" -> "j" [] c = "K" -> "k" [] c = "L" -> "l"
          [] c = "M" -> "m" [] c = "N" -> "n" [] c = "O" -> "o" [] c = "P" -> "p"
          [] c = "Q" -> "q" [] c = "R" -> "r" [] c = "S" -> "s" [] c = "T" -> "t"
          [] c = "U" -> "u" [] c = "V" -> "v" [] c = "W" -> "w" [] c = "X" -> "x"
          [] c = "Y" -> "y" [] c = "Z" -> "z"]

\* c.lower() for a character of the model's alphabet
LowerChar(c) == IF c \in DOMAIN LowerOf THEN LowerOf[c] ELSE c

\* s.lower()
Lower(s) == [k \in 1..Len(s) |-> LowerChar(s[k])]

\* s.count(c) for a one-character c
Count(s, c) == Cardinality({i \in 1..Len(s) : s[i] = c})

\* sep.join(parts) for a one-character sep
RECURSIVE Join(_, _)
Join(parts, sep) ==
    IF parts = <<>> THEN <<>>
    ELSE IF Len(parts) = 1 THEN parts[1]
    ELSE parts[1] \o <<sep>> \o Join(Tail(parts), sep)

\* s.find(c, i - 1) + 1 for a one-character c: the first position from i on
\* that holds c, or 0
Find(s, c, i) ==
    LET hits == {k \in i..Len(s) : s[k] = c}
    IN  IF hits = {} THEN 0 ELSE Least(hits)

\* s.split(sep) for a one-character sep: never empty, ''.split(sep) = ['']
RECURSIVE Split(_, _)
Split(s, sep) ==
    LET i == Find(s, sep, 1)
    IN  IF i = 0 THEN <<s>>
        ELSE <<SubSeq(s, 1, i - 1)>> \o Split(Drop(s, i), sep)

\* the text matched by re.match(r'^\d+\. ', line), or <<>> when there is no match
NumberedPrefix(line) ==
    LET digs == {k \in 1..Len(line) : \A j \in 1..k : IsDigit(line[j])}
        d    == Cardinality(digs)
    IN  IF d >= 1 /\ Len(line) >= d + 2 /\ line[d + 1] = "." /\ line[d + 2] = " "
        THEN SubSeq(line, 1, d + 2)
        ELSE <<>>

-----------------------------------------------------------------------------
(* MarkdownToNotion: block constructors *)

\* the 2000 of text[:2000] in every _create_* constructor
MAX_BLOCK_TEXT == 2000

PlainText == <<"p", "l", "a", "i", "n", " ", "t", "e", "x", "t">>
MarkdownTable == <<"m", "a", "r", "k", "d", "o", "w", "n", "-", "t", "a", "b", "l", "e">>

\* _create_heading(level, text); type is "heading_<level>"
CreateHeading(level, text) ==
    [type |-> "heading", level |-> level, text |-> Take(text, MAX_BLOCK_TEXT)]

\* a paragraph constructor that does not cut its text
CreateParagraph_Uncut(text) == [type |-> "paragraph", text |-> text]

CreateParagraph(text) == [type |-> "paragraph", text |-> Take(text, MAX_BLOCK_TEXT)]

CreateListItem(text) ==
    [type |-> "bulleted_list_item", text |-> Take(text, MAX_BLOCK_TEXT)]

CreateQuote(text) == [type |-> "quote", text |-> Take(text, MAX_BLOCK_TEXT)]

\* _create_code(code, language): language None or '' becomes "plain text"
CreateCode(code, language) ==
    [type |-> "code", text |-> Take(code, MAX_BLOCK_TEXT),
     language |-> IF language = <<>> THEN PlainText ELSE language]

CreateDivider == [type |-> "divider"]

-----------------------------------------------------------------------------
(* MarkdownToNotion: list runs, code fences, tables *)

\* the list_type tests of _parse_list and _skip_list
ListMatch(line, listType) ==
    \/ listType = "-" /\ StartsWith(line, <<"-", " ">>)
    \/ listType = "numbered" /\ NumberedPrefix(line) # <<>>

\* the prefix _parse_list strips from a matching line
ListPrefix(line, listType) ==
    IF listType = "-" THEN <<"-", " ">> ELSE NumberedPrefix(line)

\* _parse_list(lines, start, list_type)
RECURSIVE ParseList(_, _, _)
ParseList(lines, i, listType) ==
    IF i > Len(lines) THEN <<>>
    ELSE LET line == RStrip(lines[i])
         IN  IF Strip(line) = <<>> THEN ParseList(lines, i + 1, listType)
             ELSE IF ListMatch(line, listType)
             THEN <<CreateListItem(Strip(Drop(line, Len(ListPrefix(line, listType)))))>>
                  \o ParseList(lines, i + 1, listType)
             ELSE <<>>

\* _skip_list with the blank-line skip left out: the run ends at a blank line
RECURSIVE SkipList_StopAtBlank(_, _, _)
SkipList_StopAtBlank(lines, i, listType) ==
    IF i > Len(lines) THEN i
    ELSE IF ListMatch(RStrip(lines[i]), listType)
    THEN SkipList_StopAtBlank(lines, i + 1, listType)
    ELSE i

\* _skip_list(lines, start, list_type)
RECURSIVE SkipList(_, _, _)
SkipList(lines, i, listType) ==
    IF i > Len(lines) THEN i
    ELSE LET line == RStrip(lines[i])
         IN  IF Strip(line) = <<>> THEN SkipList(lines, i + 1, listType)
             ELSE IF ListMatch(line, listType) THEN SkipList(lines, i + 1, listType)
             ELSE i

\* the character of the code fence (the backquote, written "~" in this module)
BQ == "~"

\* the three-backquote fence
Fence == <<BQ, BQ, BQ>>

\* _parse_code_block that closes the block at any line beginning with the fence
RECURSIVE ParseCodeBlock_AnyFence(_, _)
ParseCodeBlock_AnyFence(lines, i) ==
    IF i > Len(lines) THEN [code |-> <<>>, next |-> i]
    ELSE IF StartsWith(lines[i], Fence) THEN [code |-> <<>>, next |-> i + 1]
    ELSE LET rest == ParseCodeBlock_AnyFence(lines, i + 1)
         IN  [code |-> <<RStrip(lines[i])>> \o rest.code, next |-> rest.next]

\* _parse_code_block(lines, start): [code |-> code_lines, next |-> new index]
RECURSIVE ParseCodeBlock(_, _)
ParseCodeBlock(lines, i) ==
    IF i > Len(lines) THEN [code |-> <<>>, next |-> i]
    ELSE IF Strip(lines[i]) = Fence THEN [code |-> <<>>, next |-> i + 1]
    ELSE LET rest == ParseCodeBlock(lines, i + 1)
         IN  [code |-> <<RStrip(lines[i])>> \o rest.code, next |-> rest.next]

\* the index j at which the table loop of convert stops, started at j
RECURSIVE TableEnd(_, _)
TableEnd(lines, j) ==
    IF j <= Len(lines) /\ Count(lines[j], "|") > 0 THEN TableEnd(lines, j + 1) ELSE j

Dividers == {<<"-", "-", "-">>, <<"*", "*", "*">>, <<"_", "_", "_">>}

-----------------------------------------------------------------------------
(* MarkdownToNotion.convert: one iteration of the while loop *)

\* the branch of the if/elif chain that line = lines[i].rstrip() takes
RuleOf(line) ==
    IF Strip(line) = <<>> THEN "blank"
    ELSE IF StartsWith(line, <<"#", " ">>) THEN "h1"
    ELSE IF StartsWith(line, <<"#", "#", " ">>) THEN "h2"
    ELSE IF StartsWith(line, <<"#", "#", "#", " ">>) THEN "h3"
    ELSE IF StartsWith(line, <<"-", " ">>) \/ StartsWith(line, <<"*", " ">>) THEN "ulist"
    ELSE IF NumberedPrefix(line) # <<>> THEN "olist"
    ELSE IF StartsWith(line, <<">", " ">>) THEN "quote"
    ELSE IF StartsWith(line, Fence) THEN "code"
    ELSE IF Strip(line) \in Dividers THEN "divider"
    ELSE IF Count(line, "|") >= 3 THEN "table"
    ELSE "paragraph"

\* the blocks the iteration at index i appends
StepBlocks(lines, i) ==
    LET line == RStrip(lines[i])
        rule == RuleOf(line)
    IN  CASE rule = "blank"     -> <<>>
          [] rule = "h1"        -> <<CreateHeading(1, Drop(line, 2))>>
          [] rule = "h2"        -> <<CreateHeading(2, Drop(line, 3))>>
          [] rule = "h3"        -> <<CreateHeading(3, Drop(line, 4))>>
          [] rule = "ulist"     -> ParseList(lines, i, "-")
          [] rule = "olist"     -> ParseList(lines, i, "numbered")
          [] rule = "quote"     -> <<CreateQuote(Drop(line, 2))>>
          [] rule = "code"      ->
                <<CreateCode(Join(ParseCodeBlock(lines, i + 1).code, NL),
                             IF Len(lines[i]) > 3 THEN Strip(Drop(lines[i], 3)) ELSE <<>>)>>
          [] rule = "divider"   -> <<CreateDivider>>
          [] rule = "table"     ->
                <<CreateCode(Join(<<line>> \o SubSeq(lines, i + 1, TableEnd(lines, i + 1) - 1), NL),
                             MarkdownTable)>>
          [] rule = "paragraph" -> <<CreateParagraph(line)>>

\* the value of i after the iteration at index i
StepIndex(lines, i) ==
    LET rule == RuleOf(RStrip(lines[i]))
    IN  CASE rule = "ulist" -> SkipList(lines, i, "-")
          [] rule = "olist" -> SkipList(lines, i, "numbered")
          [] rule = "code"  -> ParseCodeBlock(lines, i + 1).next
          [] rule = "table" -> TableEnd(lines, i + 1)
          [] OTHER          -> i + 1

\* convert(lines) never returns: some iteration leaves i where it was, and
\* appends nothing, so the loop repeats in the same state
RECURSIVE ConvertHangs(_, _)
ConvertHangs(lines, i) ==
    IF i > Len(lines) THEN FALSE
    ELSE IF StepIndex(lines, i) = i THEN TRUE
    ELSE ConvertHangs(lines, StepIndex(lines, i))

\* the blocks of the loop run from index i to the end, when it ends
RECURSIVE ConvertFrom(_, _)
ConvertFrom(lines, i) ==
    IF i > Len(lines) THEN <<>>
    ELSE StepBlocks(lines, i) \o ConvertFrom(lines, StepIndex(lines, i))

\* convert(text), for a text on which it returns
Convert(text) == ConvertFrom(Split(text, NL), 1)

-----------------------------------------------------------------------------
(* Input lines of the conversion *)

L_H1     == <<"#", " ", "T">>
L_H2     == <<"#", "#", " ", "H">>
L_H3     == <<"#", "#", "#", " ", "S">>
L_Da     == <<"-", " ", "a">>
L_Db     == <<"-", " ", "b">>
L_Star   == <<"*", " ", "c">>
L_Num    == <<"1", ".", " ", "n">>
L_Quote  == <<">", " ", "q">>
L_Para   == <<"p", "a", "r", "a">>
L_Blank  == <<>>
L_Fence  == Fence
L_FencePy == Fence \o <<"p", "y">>
L_Rule   == <<"-", "-", "-">>
L_Table  == <<"a", "|", "b", "|", "c", "|", "d">>

\* the line kinds of long inputs
CoreLines == {L_H2, L_Da, L_Db, L_Blank, L_Para}

\* the line kinds of short inputs: one or two lines for every branch of convert
AllLines == {L_H1, L_H3, L_Da, L_Star, L_Num, L_Quote, L_Para, L_Blank,
             L_Fence, L_FencePy, L_Rule, L_Table}

\* all sequences over S of length 1..n
SeqsUpTo(S, n) == UNION {[1..k -> S] : k \in 1..n}

ConvInputs == SeqsUpTo(CoreLines, MaxConvLines) \cup SeqsUpTo(AllLines, MaxMixedLines)

-----------------------------------------------------------------------------
(* MarkdownToNotion.convert as a state machine: one action per branch *)

InitConvert ==
    /\ \E ls \in ConvInputs : cText = Join(ls, NL)
    /\ cLines = Split(cText, NL)
    /\ cI = 1
    /\ cBlocks = <<>>
    /\ cIter = 0
    /\ cPc = "loop"

\* the loop is at a line that takes branch "rule". cIter counts iterations and
\* is capped one past the number of lines: an iteration that leaves i and
\* blocks unchanged would otherwise repeat without end.
AtRule(rule) ==
    /\ cPc = "loop"
    /\ cI <= Len(cLines)
    /\ cIter <= Len(cLines)
    /\ RuleOf(RStrip(cLines[cI])) = rule

ConvBlank ==
    /\ AtRule("blank")
    /\ cBlocks' = cBlocks \o StepBlocks(cLines, cI)
    /\ cI' = StepIndex(cLines, cI)
    /\ cIter' = cIter + 1
    /\ UNCHANGED <<cText, cLines, cPc>>

ConvHeading ==
    /\ AtRule("h1") \/ AtRule("h2") \/ AtRule("h3")
    /\ cBlocks' = cBlocks \o StepBlocks(cLines, cI)
    /\ cI' = StepIndex(cLines, cI)
    /\ cIter' = cIter + 1
    /\ UNCHANGED <<cText, cLines, cPc>>

ConvUList ==
    /\ AtRule("ulist")
    /\ cBlocks' = cBlocks \o StepBlocks(cLines, cI)
    /\ cI' = StepIndex(cLines, cI)
    /\ cIter' = cIter + 1
    /\ UNCHANGED <<cText, cLines, cPc>>

ConvOList ==
    /\ AtRule("olist")
    /\ cBlocks' = cBlocks \o StepBlocks(cLines, cI)
    /\ cI' = StepIndex(cLines, cI)
    /\ cIter' = cIter + 1
    /\ UNCHANGED <<cText, cLines, cPc>>

ConvQuote ==
    /\ AtRule("quote")
    /\ cBlocks' = cBlocks \o StepBlocks(cLines, cI)
    /\ cI' = StepIndex(cLines, cI)
    /\ cIter' = cIter + 1
    /\ UNCHANGED <<cText, cLines, cPc>>

ConvCode ==
    /\ AtRule("code")
    /\ cBlocks' = cBlocks \o StepBlocks(cLines, cI)
    /\ cI' = StepIndex(cLines, cI)
    /\ cIter' = cIter + 1
    /\ UNCHANGED <<cText, cLines, cPc>>

ConvDivider ==
    /\ AtRule("divider")
    /\ cBlocks' = cBlocks \o StepBlocks(cLines, cI)
    /\ cI' = StepIndex(cLines, cI)
    /\ cIter' = cIter + 1
    /\ UNCHANGED <<cText, cLines, cPc>>

ConvTable ==
    /\ AtRule("table")
    /\ cBlocks' = cBlocks \o StepBlocks(cLines, cI)
    /\ cI' = StepIndex(cLines, cI)
    /\ cIter' = cIter + 1
    /\ UNCHANGED <<cText, cLines, cPc>>

ConvParagraph ==
    /\ AtRule("paragraph")
    /\ cBlocks' = cBlocks \o StepBlocks(cLines, cI)
    /\ cI' = StepIndex(cLines, cI)
    /\ cIter' = cIter + 1
    /\ UNCHANGED <<cText, cLines, cPc>>

\* while i < len(lines) fails: return blocks
ConvReturn ==
    /\ cPc = "loop"
    /\ cI > Len(cLines)
    /\ cPc' = "done"
    /\ UNCHANGED <<cText, cLines, cI, cBlocks, cIter>>

-----------------------------------------------------------------------------
(* MemoryParser: the document scan *)

Str_Standard  == <<"S", "t", "a", "n", "d", "a", "r", "d">>
Str_Protocol  == <<"P", "r", "o", "t", "o", "c", "o", "l">>
Str_Lesson    == <<"L", "e", "s", "s", "o", "n">>
Str_Framework == <<"F", "r", "a", "m", "e", "w", "o", "r", "k">>

\* the whitelist of parse_memory_file, matched as written
MemoryKeywords == {Str_Standard, Str_Protocol, Str_Lesson, Str_Framework}

\* the whitelist of parse_daily_files, matched against the lowercased title
DailyKeywords ==
    {<<"r", "e", "s", "e", "a", "r", "c", "h">>, <<"f", "i", "n", "d", "i", "n", "g">>,
     <<"l", "e", "s", "s", "o", "n">>, <<"d", "e", "c", "i", "s", "i", "o", "n">>,
     <<"i", "n", "s", "i", "g", "h", "t">>, <<"p", "a", "t", "t", "e", "r", "n">>,
     <<"k", "e", "y", " ", "t", "a", "k", "e", "a", "w", "a", "y">>,
     <<"b", "e", "n", "c", "h", "m", "a", "r", "k">>}

\* any(kw in section_title ...) of the file kind being scanned
Whitelisted(source, sectionTitle) ==
    IF source = "MEMORY.md"
    THEN \E kw \in MemoryKeywords : Contains(sectionTitle, kw)
    ELSE \E kw \in DailyKeywords : Contains(Lower(sectionTitle), kw)

H2Marker == <<"#", "#", " ">>
H3Marker == <<"#", "#", "#", " ">>

\* the test with the section condition left out
OpensEntry_AnySection(line, section) == StartsWith(line, H3Marker)

\* line.startswith('### ') and current_section
OpensEntry(line, section) == StartsWith(line, H3Marker) /\ section # <<>>

Str_MemoryMd == <<"M", "E", "M", "O", "R", "Y", ".", "m", "d">>

\* date.strftime('%Y-%m-%d') of today - i days, today being 2026-11-09
DateStr(i) == <<"2", "0", "2", "6", "-", "1", "1", "-", "0">>
              \o <<CASE i = 0 -> "9" [] i = 1 -> "8" [] i = 2 -> "7" [] i = 3 -> "6"
                     [] i = 4 -> "5" [] i = 5 -> "4" [] i = 6 -> "3" [] OTHER -> "2">>

\* current_entry = None
NoEntry == [id |-> 0, title |-> <<>>, source |-> "", section |-> <<>>, file |-> <<>>,
            date |-> <<>>]

\* the dict built at a level-3 heading; id is the number of the heading line
\* and stands for the identity of the dict object. date is <<>> where the
\* dict has no 'date' key.
NewEntry(id, line, source, section, day) ==
    [id |-> id, title |-> Strip(Drop(line, 4)), source |-> source, section |-> section,
     file |-> IF source = "MEMORY.md" THEN Str_MemoryMd
              ELSE DateStr(day) \o <<".", "m", "d">>,
     date |-> IF source = "MEMORY.md" THEN <<>> ELSE DateStr(day)]

WithBody(e, body) ==
    [id |-> e.id, title |-> e.title, source |-> e.source, section |-> e.section,
     file |-> e.file, date |-> e.date, body |-> body]

\* if current_entry and entry_buffer:
\*     current_entry['body'] = '\n'.join(entry_buffer).strip()
\*     entries.append(current_entry)
\* The assignment changes the dict object, so an earlier element of entries
\* that is this same object changes with it.
Flushed(entries, entry, buffer) ==
    IF entry # NoEntry /\ buffer # <<>>
    THEN LET body == Strip(Join(buffer, NL))
         IN  [k \in 1..Len(entries) |->
                 IF entries[k].id = entry.id THEN WithBody(entry, body) ELSE entries[k]]
             \o <<WithBody(entry, body)>>
    ELSE entries

\* entry_buffer after the flush statement
BufferAfterFlush(entry, buffer) ==
    IF entry # NoEntry /\ buffer # <<>> THEN <<>> ELSE buffer

\* the source of the file being scanned
ScanSource == IF pPhase = "memory_scan" THEN "MEMORY.md" ELSE "daily"

\* the 200 of entry['body'][:200]
DEDUP_BODY_PREFIX == 200

P_Lesson == H2Marker \o Str_Lesson
P_lesson == H2Marker \o <<"l", "e", "s", "s", "o", "n">>
P_Misc   == H2Marker \o <<"M", "i", "s", "c">>
P_A      == H3Marker \o <<"A">>
P_B      == H3Marker \o <<"B">>
P_x      == <<"x">>
P_Blank  == <<>>
\* two lines that differ only after their first 200 characters
P_y1     == Rep("y", DEDUP_BODY_PREFIX) \o <<"1">>
P_y2     == Rep("y", DEDUP_BODY_PREFIX) \o <<"2">>

\* the lines a scanned file is made of
ParseLines == {P_Lesson, P_lesson, P_Misc, P_A, P_B, P_x, P_Blank, P_y1, P_y2}

-----------------------------------------------------------------------------
(* MemoryParser as a state machine: one action per branch of the scan loop *)

InitExtract ==
    /\ pPhase = "memory"
    /\ pDay = 0
    /\ pN = 0
    /\ pFileLines = 0
    /\ current_section = <<>>
    /\ current_entry = NoEntry
    /\ entry_buffer = <<>>
    /\ all_entries = <<>>
    /\ unique_entries = <<>>
    /\ gSectionOk = FALSE
    /\ gHeads = {}
    /\ gGated = {}
    /\ gClosed = FALSE

Scanning == pPhase \in {"memory_scan", "daily_scan"} /\ pN < MaxLines

\* parse_memory_file: MEMORY.md exists and is read
OpenMemoryFile ==
    /\ pPhase = "memory"
    /\ pPhase' = "memory_scan"
    /\ pFileLines' = 0
    /\ current_section' = <<>>
    /\ current_entry' = NoEntry
    /\ entry_buffer' = <<>>
    /\ gSectionOk' = FALSE
    /\ gClosed' = FALSE
    /\ UNCHANGED <<pDay, pN, all_entries, unique_entries, gHeads, gGated>>

\* parse_memory_file: MEMORY.md not found, no entries
MissingMemoryFile ==
    /\ pPhase = "memory"
    /\ pPhase' = "daily"
    /\ UNCHANGED <<pDay, pN, pFileLines, current_section, current_entry, entry_buffer,
                   all_entries, unique_entries, gSectionOk, gHeads, gGated,
                   gClosed>>

\* parse_daily_files: the file of day pDay exists and is read
OpenDailyFile ==
    /\ pPhase = "daily"
    /\ pDay < DaysBack
    /\ pPhase' = "daily_scan"
    /\ pFileLines' = 0
    /\ current_section' = <<>>
    /\ current_entry' = NoEntry
    /\ entry_buffer' = <<>>
    /\ gSectionOk' = FALSE
    /\ gClosed' = FALSE
    /\ UNCHANGED <<pDay, pN, all_entries, unique_entries, gHeads, gGated>>

\* parse_daily_files: the file of day pDay does not exist: continue
MissingDailyFile ==
    /\ pPhase = "daily"
    /\ pDay < DaysBack
    /\ pDay' = pDay + 1
    /\ UNCHANGED <<pPhase, pN, pFileLines, current_section, current_entry, entry_buffer,
                   all_entries, unique_entries, gSectionOk, gHeads, gGated,
                   gClosed>>

\* a line that starts with '## '
ScanSection ==
    /\ Scanning
    /\ \E line \in ParseLines :
        /\ StartsWith(line, H2Marker)
        /\ all_entries' = Flushed(all_entries, current_entry, entry_buffer)
        /\ entry_buffer' = BufferAfterFlush(current_entry, entry_buffer)
        /\ current_section' = IF Whitelisted(ScanSource, Strip(Drop(line, 3)))
                              THEN Strip(Drop(line, 3)) ELSE <<>>
        /\ gSectionOk' = Whitelisted(ScanSource, Strip(Drop(line, 3)))
    /\ pN' = pN + 1
    /\ pFileLines' = pFileLines + 1
    /\ gClosed' = (current_entry # NoEntry)
    /\ UNCHANGED <<pPhase, pDay, current_entry, unique_entries, gHeads, gGated>>

\* a line that starts with '### ' while current_section is set
ScanHeading ==
    /\ Scanning
    /\ \E line \in ParseLines :
        /\ ~StartsWith(line, H2Marker)
        /\ OpensEntry(line, current_section)
        /\ all_entries' = Flushed(all_entries, current_entry, entry_buffer)
        /\ entry_buffer' = BufferAfterFlush(current_entry, entry_buffer)
        /\ current_entry' = NewEntry(pN + 1, line, ScanSource, current_section, pDay)
    /\ pN' = pN + 1
    /\ pFileLines' = pFileLines + 1
    /\ gHeads' = IF gSectionOk THEN gHeads \cup {pN + 1} ELSE gHeads
    /\ gClosed' = FALSE
    /\ gGated' = IF gSectionOk THEN gGated ELSE gGated \cup {pN + 1}
    /\ UNCHANGED <<pPhase, pDay, current_section, unique_entries, gSectionOk>>

\* any other line: appended to entry_buffer while an entry is open
ScanOther ==
    /\ Scanning
    /\ \E line \in ParseLines :
        /\ ~StartsWith(line, H2Marker)
        /\ ~OpensEntry(line, current_section)
        /\ entry_buffer' = IF current_entry # NoEntry THEN Append(entry_buffer, line)
                           ELSE entry_buffer
        /\ gHeads' = IF StartsWith(line, H3Marker) /\ gSectionOk
                     THEN gHeads \cup {pN + 1} ELSE gHeads
        /\ gGated' = IF StartsWith(line, H3Marker) /\ ~gSectionOk
                     THEN gGated \cup {pN + 1} ELSE gGated
    /\ pN' = pN + 1
    /\ pFileLines' = pFileLines + 1
    /\ UNCHANGED <<pPhase, pDay, current_section, current_entry, all_entries,
                   unique_entries, gSectionOk, gClosed>>

\* end of the lines of MEMORY.md: the flush after the loop, return entries
EndMemoryFile ==
    /\ pPhase = "memory_scan"
    /\ pFileLines >= 1
    /\ all_entries' = Flushed(all_entries, current_entry, entry_buffer)
    /\ pPhase' = "daily"
    /\ UNCHANGED <<pDay, pN, pFileLines, current_section, current_entry, entry_buffer,
                   unique_entries, gSectionOk, gHeads, gGated,
                   gClosed>>

\* end of the lines of a daily file: the flush after the loop, next day
EndDailyFile ==
    /\ pPhase = "daily_scan"
    /\ pFileLines >= 1
    /\ all_entries' = Flushed(all_entries, current_entry, entry_buffer)
    /\ pPhase' = "daily"
    /\ pDay' = pDay + 1
    /\ UNCHANGED <<pN, pFileLines, current_section, current_entry, entry_buffer,
                   unique_entries, gSectionOk, gHeads, gGated,
                   gClosed>>

\* the text that is hashed: f"{title}|{date or ''}|{body[:200]}". md5 and its
\* first 16 hex digits are taken to be free of collisions, so the hashed text
\* stands for the hash.
ContentHash(e) ==
    e.title \o <<"|">> \o e.date \o <<"|">> \o Take(e.body, DEDUP_BODY_PREFIX)

\* the dedup loop with seen.add left out
RECURSIVE Dedup_NoSeen(_, _, _)
Dedup_NoSeen(entries, k, seen) ==
    IF k > Len(entries) THEN <<>>
    ELSE IF ContentHash(entries[k]) \notin seen
    THEN <<entries[k]>> \o Dedup_NoSeen(entries, k + 1, seen)
    ELSE Dedup_NoSeen(entries, k + 1, seen)

\* the dedup loop of extract_all_entries over entries[k..], seen being the
\* hashes met so far
RECURSIVE Dedup(_, _, _)
Dedup(entries, k, seen) ==
    IF k > Len(entries) THEN <<>>
    ELSE IF ContentHash(entries[k]) \notin seen
    THEN <<entries[k]>> \o Dedup(entries, k + 1, seen \cup {ContentHash(entries[k])})
    ELSE Dedup(entries, k + 1, seen)

\* extract_all_entries, after both parses: deduplicate and return
ExtractAll ==
    /\ pPhase = "daily"
    /\ pDay = DaysBack
    /\ unique_entries' = Dedup(all_entries, 1, {})
    /\ pPhase' = "done"
    /\ UNCHANGED <<pDay, pN, pFileLines, current_section, current_entry, entry_buffer,
                   all_entries, gSectionOk, gHeads, gGated,
                   gClosed>>

\* The dedup loop on its own, over entries as the two parses return them: some entries
\* of MEMORY.md, then some of today's file, each under a heading line of its own.
\* Titles and bodies hold the character that joins the parts of the hashed text.
DedupTitles == {<<"A">>, <<"A", "|">>}

DedupBodies == {<<"x">>, <<"|", "x">>}

\* the k-th entry returned by the parses: its heading is line 2k
ParsedEntry(k, fromMemory, title, body) ==
    WithBody(NewEntry(2 * k, H3Marker \o title,
                      IF fromMemory THEN "MEMORY.md" ELSE "daily", Str_Lesson, 0),
             body)

DedupInputs ==
    UNION {{[k \in 1..n |-> ParsedEntry(k, k <= m, t[k], b[k])] :
                m \in 0..n, t \in [1..n -> DedupTitles], b \in [1..n -> DedupBodies]}
           : n \in 1..MaxDedupEntries}

\* extract_all_entries after both parses have returned; the line counters and the
\* scan state play no part from here on
InitDedup ==
    /\ pPhase = "daily"
    /\ pDay = DaysBack
    /\ pN = 0
    /\ pFileLines = 0
    /\ current_section = <<>>
    /\ current_entry = NoEntry
    /\ entry_buffer = <<>>
    /\ all_entries \in DedupInputs
    /\ unique_entries = <<>>
    /\ gSectionOk = FALSE
    /\ gHeads = {}
    /\ gGated = {}
    /\ gClosed = FALSE

-----------------------------------------------------------------------------
(* SyncOrchestrator.process_entry: what is sent *)

MAX_BODY_LENGTH == 2000
MAX_TITLE_LENGTH == 100
\* the 50 of len(body_content) > 50
MIN_BODY_LENGTH == 50

\* text.rfind(sep, 0, end): the 0-based index of the last occurrence of sep
\* that lies within text[0:end], or -1
RFind(text, sep, end) ==
    LET top  == Min(end, Len(text)) - Len(sep)
        \* distances below top of the indices at which sep occurs
        back == {top - k : k \in {j \in 0..top : SubSeq(text, j + 1, j + Len(sep)) = sep}}
    IN  IF back = {} THEN -1 ELSE top - Least(back)

\* the separators of _truncate_text, in the order of its for loop
Separators == << <<NL, NL>>, <<".", " ">>, <<"!", " ">>, <<"?", " ">>, <<";", " ">> >>

\* the for loop of _truncate_text from the k-th separator on, then the hard cut
RECURSIVE TruncateFrom(_, _, _)
TruncateFrom(text, max_len, k) ==
    IF k > Len(Separators) THEN Strip(Take(text, max_len - 3)) \o <<".", ".", ".">>
    ELSE LET idx == RFind(text, Separators[k], max_len)
         IN  IF 2 * idx > max_len THEN Strip(Take(text, idx + 1))
             ELSE TruncateFrom(text, max_len, k + 1)

\* _truncate_text(text, max_len)
TruncateText(text, max_len) ==
    IF Len(text) <= max_len THEN text ELSE TruncateFrom(text, max_len, 1)

\* a threshold test that also attaches a body of exactly 50 characters
BodyAttached_AtLeast(entry) == Len(entry.body) >= MIN_BODY_LENGTH

\* body_content and len(body_content) > 50
BodyAttached(entry) == Len(entry.body) > MIN_BODY_LENGTH

\* the properties dict of process_entry: Name, Source, Source File and, for a
\* body that is attached, Body
BuildProperties(entry) ==
    [name |-> Take(entry.title, MAX_TITLE_LENGTH),
     source |-> entry.source,
     source_file |-> entry.file,
     has_body |-> BodyAttached(entry),
     body |-> IF BodyAttached(entry) THEN TruncateText(entry.body, MAX_BODY_LENGTH) ELSE <<>>]

\* children of process_entry; <<>> stands for None, which create_page treats
\* as it treats an empty list
BuildChildren(entry) == IF BodyAttached(entry) THEN Convert(entry.body) ELSE <<>>

-----------------------------------------------------------------------------
(* NotionClient and the remote store *)

\* the pages the "Source File contains source_file" filter of
\* query_by_source_file selects
Matching(store, source_file) ==
    {id \in 1..Len(store) : Contains(store[id].properties.source_file, source_file)}

\* a lookup whose filter reads the Name property instead of Source File
QueryResults_ByName(store, source_file) ==
    LET hits == {id \in 1..Len(store) : Contains(store[id].properties.name, source_file)}
    IN  IF hits = {} THEN {0} ELSE hits

\* what query_by_source_file can return on a well-formed answer: the id of
\* results[0], any of the selected pages, or 0 (None) when none is selected
QueryResults(store, source_file) ==
    IF Matching(store, source_file) = {} THEN {0} ELSE Matching(store, source_file)

\* the ways a request can fail without raising: "rejected", the answer is an
\* error object; "malformed", the output of curl is not JSON (an answer that is
\* not JSON, or none at all after a transport error) and _curl_request
\* returns None
Refusals == {"rejected", "malformed"}

\* the same two ways, for the query sync makes to choose the key of the tally
TallyRefusals == {"tally_rejected", "tally_malformed"}

-----------------------------------------------------------------------------
(* SyncOrchestrator.sync as a state machine: one action per request outcome *)

\* The run is one call of sync over the entries extract_all_entries returned.
\* The classification written into the properties has no part in which
\* requests are made or how they are counted and is left out of them.
\* log_action is taken to succeed. A request that raises leaves the store
\* as it was.

Title(k) == <<CASE k = 1 -> "A" [] k = 2 -> "B" [] k = 3 -> "C" [] OTHER -> "D">>

\* a body of exactly 50 characters, one paragraph line
Body50 == Rep("x", 50)
\* a body of 51 characters: a heading line and a paragraph line
Body51 == <<"#", "#", " ", "H", NL>> \o Rep("x", 46)
\* a body of 51 characters whose line begins with '* '
BodyStar == <<"*", " ">> \o Rep("c", 49)

SyncBodies == {Body50, Body51, BodyStar}

DailyFile == DateStr(0) \o <<".", "m", "d">>

\* the k-th entry of a run: from MEMORY.md or from today's file
SyncEntry(k, fromMemory, body) ==
    [id |-> k, title |-> Title(k),
     source |-> IF fromMemory THEN "MEMORY.md" ELSE "daily",
     section |-> Str_Lesson,
     file |-> IF fromMemory THEN Str_MemoryMd ELSE DailyFile,
     date |-> IF fromMemory THEN <<>> ELSE DateStr(0),
     body |-> body]

\* the entry lists of a run: entries of MEMORY.md come before those of daily files
SyncInputs ==
    UNION {{[k \in 1..n |-> SyncEntry(k, k <= m, b[k])] : m \in 0..n, b \in [1..n -> SyncBodies]}
           : n \in 1..MaxEntries}

NoProperties == [name |-> <<>>, source |-> "", source_file |-> <<>>, has_body |-> FALSE,
                 body |-> <<>>]

ZeroStats == [created |-> 0, updated |-> 0, failed |-> 0]

PerEntry(v) == [k \in 1..Len(sEntries) |-> v]

\* a page an earlier run created from an entry of MEMORY.md
OldPage ==
    [properties |-> [name |-> <<"O">>, source |-> "MEMORY.md", source_file |-> Str_MemoryMd,
                     has_body |-> FALSE, body |-> <<>>],
     children |-> <<>>]

\* The store a first run meets: empty, or for a dry run also one that holds a page of
\* an earlier run (a later run that writes meets the pages of the run before it).
InitialStores(dry) == IF dry THEN {<<>>, <<OldPage>>} ELSE {<<>>}

InitSync ==
    /\ sEntries \in SyncInputs
    /\ dry_run \in BOOLEAN
    /\ sRun = 1
    /\ sIdx = 1
    /\ sPc = "lookup"
    /\ existing_page_id = 0
    /\ properties = NoProperties
    /\ children = <<>>
    /\ page_id = 0
    /\ stats = ZeroStats
    /\ pages \in InitialStores(dry_run)
    /\ gReqs = <<>>
    /\ gWrites = PerEntry(<<>>)
    /\ gDispatch = PerEntry("none")
    /\ gTally = PerEntry("none")
    /\ gFaultKinds = PerEntry({})
    /\ gProcessed = PerEntry(0)
    /\ gFaults = 0

Entry == sEntries[sIdx]

\* the for loop of sync moves on: to the next entry, or to the summary
Advance ==
    IF sIdx < Len(sEntries)
    THEN sIdx' = sIdx + 1 /\ sPc' = "lookup"
    ELSE sIdx' = sIdx /\ sPc' = "done"

\* stats[label] += 1 for the entry being processed
Tally(label) ==
    /\ stats' = [stats EXCEPT ![label] = @ + 1]
    /\ gTally' = [gTally EXCEPT ![sIdx] = label]

\* a request of the entry being processed fails in the given way
Fault(kind) ==
    /\ gFaults < MaxFaults
    /\ gFaultKinds' = [gFaultKinds EXCEPT ![sIdx] = @ \cup {kind}]
    /\ gFaults' = gFaults + 1

\* process_entry: query_by_source_file gets a well-formed answer
LookupAnswered ==
    /\ sPc = "lookup"
    /\ \E r \in QueryResults(pages, Entry.file) :
        /\ existing_page_id' = r
        /\ gReqs' = <<[kind |-> "query", entry |-> sIdx, result |-> r]>>
    /\ gProcessed' = [gProcessed EXCEPT ![sIdx] = @ + 1]
    /\ sPc' = "prepare"
    /\ UNCHANGED <<sEntries, dry_run, sRun, sIdx, properties, children, page_id, stats, pages,
                   gWrites, gDispatch, gTally, gFaultKinds, gFaults>>

\* process_entry: the answer to the query is an error object or not JSON;
\* query_by_source_file returns None
LookupRefused ==
    /\ sPc = "lookup"
    /\ \E kind \in Refusals : Fault(kind)
    /\ existing_page_id' = 0
    /\ gReqs' = <<[kind |-> "query", entry |-> sIdx, result |-> 0]>>
    /\ gProcessed' = [gProcessed EXCEPT ![sIdx] = @ + 1]
    /\ sPc' = "prepare"
    /\ UNCHANGED <<sEntries, dry_run, sRun, sIdx, properties, children, page_id, stats, pages,
                   gWrites, gDispatch, gTally>>

\* process_entry: the query raises; the except clause of sync counts a failure
LookupRaises ==
    /\ sPc = "lookup"
    /\ Fault("raised")
    /\ gReqs' = <<[kind |-> "query", entry |-> sIdx, result |-> 0]>>
    /\ gProcessed' = [gProcessed EXCEPT ![sIdx] = @ + 1]
    /\ gDispatch' = [gDispatch EXCEPT ![sIdx] = "raised"]
    /\ Tally("failed")
    /\ Advance
    /\ UNCHANGED <<sEntries, dry_run, sRun, existing_page_id, properties, children, page_id,
                   pages, gWrites>>

\* process_entry: build properties and children
Prepare ==
    /\ sPc = "prepare"
    /\ ~(BodyAttached(Entry) /\ ConvertHangs(Split(Entry.body, NL), 1))
    /\ properties' = BuildProperties(Entry)
    /\ children' = BuildChildren(Entry)
    /\ sPc' = "dispatch"
    /\ UNCHANGED <<sEntries, dry_run, sRun, sIdx, existing_page_id, page_id, stats, pages,
                   gReqs, gWrites, gDispatch, gTally, gFaultKinds, gProcessed, gFaults>>

\* process_entry: converter.convert(body_content) never returns
PrepareHangs ==
    /\ sPc = "prepare"
    /\ BodyAttached(Entry) /\ ConvertHangs(Split(Entry.body, NL), 1)
    /\ properties' = BuildProperties(Entry)
    /\ sPc' = "hung"
    /\ UNCHANGED <<sEntries, dry_run, sRun, sIdx, existing_page_id, children, page_id, stats,
                   pages, gReqs, gWrites, gDispatch, gTally, gFaultKinds, gProcessed,
                   gFaults>>

\* a dry run that dispatched the create request all the same
DryRunReturn_Dispatches ==
    /\ sPc = "dispatch"
    /\ dry_run
    /\ pages' = Append(pages, [properties |-> properties, children |-> children])
    /\ page_id' = 0
    /\ Tally("failed")
    /\ Advance
    /\ UNCHANGED <<sEntries, dry_run, sRun, existing_page_id, properties, children,
                   gReqs, gWrites, gDispatch, gFaultKinds, gProcessed, gFaults>>
\* process_entry in a dry run returns None, which sync counts as failed
DryRunReturn ==
    /\ sPc = "dispatch"
    /\ dry_run
    /\ page_id' = 0
    /\ Tally("failed")
    /\ Advance
    /\ UNCHANGED <<sEntries, dry_run, sRun, existing_page_id, properties, children, pages,
                   gReqs, gWrites, gDispatch, gFaultKinds, gProcessed, gFaults>>

UpdateRequest ==
    [kind |-> "update", entry |-> sIdx, target |-> existing_page_id,
     properties |-> properties, children |-> <<>>]

CreateRequest ==
    [kind |-> "create", entry |-> sIdx, target |-> 0,
     properties |-> properties, children |-> children]

\* update_page succeeds: the page takes the properties; process_entry returns its id
UpdateOk ==
    /\ sPc = "dispatch"
    /\ ~dry_run
    /\ existing_page_id # 0
    /\ pages' = [pages EXCEPT ![existing_page_id].properties = properties]
    /\ page_id' = existing_page_id
    /\ gReqs' = Append(gReqs, UpdateRequest)
    /\ gWrites' = [gWrites EXCEPT ![sIdx] = Append(@, "update")]
    /\ gDispatch' = [gDispatch EXCEPT ![sIdx] = "update_ok"]
    /\ sPc' = "tally"
    /\ UNCHANGED <<sEntries, dry_run, sRun, sIdx, existing_page_id, properties, children,
                   stats, gTally, gFaultKinds, gProcessed, gFaults>>

\* update_page returns a false value; process_entry returns None
UpdateRefused ==
    /\ sPc = "dispatch"
    /\ ~dry_run
    /\ existing_page_id # 0
    /\ \E kind \in Refusals : Fault(kind)
    /\ page_id' = 0
    /\ gReqs' = Append(gReqs, UpdateRequest)
    /\ gWrites' = [gWrites EXCEPT ![sIdx] = Append(@, "update")]
    /\ gDispatch' = [gDispatch EXCEPT ![sIdx] = "update_failed"]
    /\ Tally("failed")
    /\ Advance
    /\ UNCHANGED <<sEntries, dry_run, sRun, existing_page_id, properties, children, pages,
                   gProcessed>>

\* update_page raises; the except clause of sync counts a failure
UpdateRaises ==
    /\ sPc = "dispatch"
    /\ ~dry_run
    /\ existing_page_id # 0
    /\ Fault("raised")
    /\ gReqs' = Append(gReqs, UpdateRequest)
    /\ gWrites' = [gWrites EXCEPT ![sIdx] = Append(@, "update")]
    /\ gDispatch' = [gDispatch EXCEPT ![sIdx] = "raised"]
    /\ Tally("failed")
    /\ Advance
    /\ UNCHANGED <<sEntries, dry_run, sRun, existing_page_id, properties, children, page_id,
                   pages, gProcessed>>

\* create_page succeeds: the store holds a new page; process_entry returns its id
CreateOk ==
    /\ sPc = "dispatch"
    /\ ~dry_run
    /\ existing_page_id = 0
    /\ pages' = Append(pages, [properties |-> properties, children |-> children])
    /\ page_id' = Len(pages) + 1
    /\ gReqs' = Append(gReqs, CreateRequest)
    /\ gWrites' = [gWrites EXCEPT ![sIdx] = Append(@, "create")]
    /\ gDispatch' = [gDispatch EXCEPT ![sIdx] = "create_ok"]
    /\ sPc' = "tally"
    /\ UNCHANGED <<sEntries, dry_run, sRun, sIdx, existing_page_id, properties, children,
                   stats, gTally, gFaultKinds, gProcessed, gFaults>>

\* create_page returns None; process_entry returns None
CreateRefused ==
    /\ sPc = "dispatch"
    /\ ~dry_run
    /\ existing_page_id = 0
    /\ \E kind \in Refusals : Fault(kind)
    /\ page_id' = 0
    /\ gReqs' = Append(gReqs, CreateRequest)
    /\ gWrites' = [gWrites EXCEPT ![sIdx] = Append(@, "create")]
    /\ gDispatch' = [gDispatch EXCEPT ![sIdx] = "create_failed"]
    /\ Tally("failed")
    /\ Advance
    /\ UNCHANGED <<sEntries, dry_run, sRun, existing_page_id, properties, children, pages,
                   gProcessed>>

\* create_page raises; the except clause of sync counts a failure
CreateRaises ==
    /\ sPc = "dispatch"
    /\ ~dry_run
    /\ existing_page_id = 0
    /\ Fault("raised")
    /\ gReqs' = Append(gReqs, CreateRequest)
    /\ gWrites' = [gWrites EXCEPT ![sIdx] = Append(@, "create")]
    /\ gDispatch' = [gDispatch EXCEPT ![sIdx] = "raised"]
    /\ Tally("failed")
    /\ Advance
    /\ UNCHANGED <<sEntries, dry_run, sRun, existing_page_id, properties, children, page_id,
                   pages, gProcessed>>

\* the key of stats that sync picks once process_entry returned a page id,
\* given the result r of its own query_by_source_file(entry['file'])
TallyKey(r) == IF r = 0 THEN "created" ELSE "updated"

\* sync: page_id is set, the query of the tally gets a well-formed answer
TallyAnswered ==
    /\ sPc = "tally"
    /\ \E r \in QueryResults(pages, Entry.file) : Tally(TallyKey(r))
    /\ Advance
    /\ UNCHANGED <<sEntries, dry_run, sRun, existing_page_id, properties, children, page_id,
                   pages, gReqs, gWrites, gDispatch, gFaultKinds, gProcessed, gFaults>>

\* sync: the query of the tally is answered by an error object or non-JSON
TallyRefused ==
    /\ sPc = "tally"
    /\ \E kind \in TallyRefusals : Fault(kind)
    /\ Tally(TallyKey(0))
    /\ Advance
    /\ UNCHANGED <<sEntries, dry_run, sRun, existing_page_id, properties, children, page_id,
                   pages, gReqs, gWrites, gDispatch, gProcessed>>

\* sync: the query of the tally raises; the except clause counts a failure
TallyRaises ==
    /\ sPc = "tally"
    /\ Fault("tally_raised")
    /\ Tally("failed")
    /\ Advance
    /\ UNCHANGED <<sEntries, dry_run, sRun, existing_page_id, properties, children, page_id,
                   pages, gReqs, gWrites, gDispatch, gProcessed>>

\* sync is called again over the same entries
NextRun ==
    /\ sPc = "done"
    /\ sRun < MaxRuns
    /\ sRun' = sRun + 1
    /\ sIdx' = 1
    /\ sPc' = "lookup"
    /\ stats' = ZeroStats
    /\ gReqs' = <<>>
    /\ gWrites' = PerEntry(<<>>)
    /\ gDispatch' = PerEntry("none")
    /\ gTally' = PerEntry("none")
    /\ gFaultKinds' = PerEntry({})
    /\ gProcessed' = PerEntry(0)
    /\ UNCHANGED <<sEntries, dry_run, existing_page_id, properties, children, page_id,
                   pages, gFaults>>

-----------------------------------------------------------------------------
(* The texts process_entry emits: Name, Body and the blocks, one call each *)

\* the for loop of _truncate_text returns at one of the separators
BoundaryCut(text, max_len) ==
    \E k \in 1..Len(Separators) : 2 * RFind(text, Separators[k], max_len) > max_len

\* the characters of the enumerated texts
SmallChars == {"a", ".", " ", NL}

\* text with a run of n characters c before the sequence sep, then m letters
Padded(pre, c, n, sep, m) == Rep("a", pre) \o Rep(c, n) \o sep \o Rep("b", m)

Half == MAX_BODY_LENGTH \div 2

\* long bodies: a separator, or none, at or around half of and all of
\* MAX_BODY_LENGTH, after letters or after a run of spaces
LongBodies ==
    {Padded(pre, " ", 0, sep, m) :
        pre \in {Half - 1, Half, Half + 1, MAX_BODY_LENGTH - 2, MAX_BODY_LENGTH - 1},
        sep \in {Separators[k] : k \in 1..Len(Separators)} \cup {<<>>},
        m \in {0, 1, Half + 1, MAX_BODY_LENGTH + 1}}
    \cup {Padded(1, " ", Half + 1, sep, Half) :
        sep \in {Separators[k] : k \in 1..Len(Separators)}}

\* long bodies with two separators past half of MAX_BODY_LENGTH, a letter between them
TwoSeparatorBodies ==
    {Rep("a", Half + 1) \o Separators[j] \o <<"a">> \o Separators[k] \o Rep("b", Half) :
        j \in 1..Len(Separators), k \in 1..Len(Separators)}

\* bodies of one long line, or one long fenced or table block, of each kind
LongBlocks ==
    {marker \o Rep("c", MAX_BLOCK_TEXT + 1) :
        marker \in {<<>>, <<"#", " ">>, <<"#", "#", " ">>, <<"#", "#", "#", " ">>,
                    <<"-", " ">>, <<"*", " ">>, <<"1", ".", " ">>, <<">", " ">>,
                    <<"|", "|", "|">>, Fence \o <<"p", "y", NL>>}}

TitleLengths ==
    {0, 1, MAX_TITLE_LENGTH - 1, MAX_TITLE_LENGTH, MAX_TITLE_LENGTH + 1, 2 * MAX_TITLE_LENGTH}

\* the calls: an entry's title and body, and the max_len given to _truncate_text
PayloadInputs ==
    {[title |-> <<"T">>, body |-> b, max_len |-> SmallMax] :
        b \in UNION {[1..n -> SmallChars] : n \in 0..SmallLen}}
    \cup {[title |-> <<"T">>, body |-> b, max_len |-> MAX_BODY_LENGTH] :
        b \in LongBodies \cup TwoSeparatorBodies \cup LongBlocks}
    \cup {[title |-> Rep("t", n), body |-> <<>>, max_len |-> MAX_BODY_LENGTH] :
        n \in TitleLengths}

InitPayload ==
    /\ fIn \in PayloadInputs
    /\ fOut = <<>>
    /\ fPc = "in"

\* process_entry: entry['title'][:MAX_TITLE_LENGTH]
NameCut ==
    /\ fPc = "in"
    /\ fOut' = Take(fIn.title, MAX_TITLE_LENGTH)
    /\ fPc' = "named"
    /\ UNCHANGED fIn

\* _truncate_text: the text is not longer than max_len and is returned as it is
TruncateKeeps ==
    /\ fPc = "in"
    /\ Len(fIn.body) <= fIn.max_len
    /\ fOut' = TruncateText(fIn.body, fIn.max_len)
    /\ fPc' = "kept"
    /\ UNCHANGED fIn

\* _truncate_text: the return inside the for loop
TruncateAtBoundary ==
    /\ fPc = "in"
    /\ Len(fIn.body) > fIn.max_len
    /\ BoundaryCut(fIn.body, fIn.max_len)
    /\ fOut' = TruncateText(fIn.body, fIn.max_len)
    /\ fPc' = "boundary"
    /\ UNCHANGED fIn

\* _truncate_text: the hard cut with the ellipsis
TruncateHard ==
    /\ fPc = "in"
    /\ Len(fIn.body) > fIn.max_len
    /\ ~BoundaryCut(fIn.body, fIn.max_len)
    /\ fOut' = TruncateText(fIn.body, fIn.max_len)
    /\ fPc' = "hard"
    /\ UNCHANGED fIn

\* converter.convert(body) returns its blocks
ConvertReturns ==
    /\ fPc = "in"
    /\ ~ConvertHangs(Split(fIn.body, NL), 1)
    /\ fOut' = Convert(fIn.body)
    /\ fPc' = "converted"
    /\ UNCHANGED fIn

\* converter.convert(body) never returns
ConvertDiverges ==
    /\ fPc = "in"
    /\ ConvertHangs(Split(fIn.body, NL), 1)
    /\ fPc' = "hung"
    /\ UNCHANGED <<fIn, fOut>>

-----------------------------------------------------------------------------
(* EntryClassifier *)

\* EntryClassifier.TYPE_KEYWORDS, in the order of the dict
TYPE_KEYWORDS == <<
    [label |-> "Research", keywords |-> {
        <<"r", "e", "s", "e", "a", "r", "c", "h">>,
        <<"b", "e", "n", "c", "h", "m", "a", "r", "k">>,
        <<"a", "n", "a", "l", "y", "s", "i", "s">>,
        <<"c", "o", "m", "p", "a", "r", "i", "s", "o", "n">>,
        <<"t", "e", "c", "h", "n", "i", "c", "a", "l", " ", "d", "e", "e", "p", " ", "d", "i", "v", "e">>,
        <<"p", "e", "r", "f", "o", "r", "m", "a", "n", "c", "e">>,
        <<"d", "e", "t", "a", "i", "l", "e", "d", " ", "b", "r", "e", "a", "k", "d", "o", "w", "n">>}],
    [label |-> "Lesson", keywords |-> {
        <<"l", "e", "s", "s", "o", "n">>,
        <<"l", "e", "a", "r", "n", "e", "d">>,
        <<"m", "i", "s", "t", "a", "k", "e">>,
        <<"e", "r", "r", "o", "r">>,
        <<"i", "s", "s", "u", "e">>,
        <<"p", "r", "o", "b", "l", "e", "m">>,
        <<"f", "i", "x", "e", "d">>,
        <<"r", "e", "s", "o", "l", "v", "e", "d">>,
        <<"b", "l", "o", "c", "k", "e", "r">>}],
    [label |-> "Decision", keywords |-> {
        <<"d", "e", "c", "i", "s", "i", "o", "n">>,
        <<"c", "h", "o", "o", "s", "e">>,
        <<"s", "e", "l", "e", "c", "t", "e", "d">>,
        <<"o", "p", "t", "e", "d">>,
        <<"c", "o", "n", "c", "l", "u", "d", "e", "d">>,
        <<"d", "e", "t", "e", "r", "m", "i", "n", "e", "d">>,
        <<"a", "g", "r", "e", "e", "d">>,
        <<"s", "t", "r", "a", "t", "e", "g", "y">>}],
    [label |-> "Pattern", keywords |-> {
        <<"p", "a", "t", "t", "e", "r", "n">>,
        <<"t", "r", "e", "n", "d">>,
        <<"r", "e", "c", "u", "r", "r", "i", "n", "g">>,
        <<"c", "o", "m", "m", "o", "n">>,
        <<"u", "s", "u", "a", "l", "l", "y">>,
        <<"t", "y", "p", "i", "c", "a", "l", "l", "y">>,
        <<"o", "b", "s", "e", "r", "v", "a", "t", "i", "o", "n">>}],
    [label |-> "Tutorial", keywords |-> {
        <<"h", "o", "w", " ", "t", "o">>,
        <<"t", "u", "t", "o", "r", "i", "a", "l">>,
        <<"g", "u", "i", "d", "e">>,
        <<"s", "t", "e", "p">>,
        <<"i", "n", "s", "t", "r", "u", "c", "t", "i", "o", "n">>,
        <<"w", "a", "l", "k", "t", "h", "r", "o", "u", "g", "h">>,
        <<"s", "e", "t", "u", "p">>,
        <<"c", "o", "n", "f", "i", "g", "u", "r", "e">>}],
    [label |-> "Reference", keywords |-> {
        <<"r", "e", "f", "e", "r", "e", "n", "c", "e">>,
        <<"c", "h", "e", "a", "t", "s", "h", "e", "e", "t">>,
        <<"s", "p", "e", "c">>,
        <<"s", "p", "e", "c", "i", "f", "i", "c", "a", "t", "i", "o", "n">>,
        <<"d", "o", "c", "u", "m", "e", "n", "t", "a", "t", "i", "o", "n">>,
        <<"a", "p", "i">>,
        <<"q", "u", "i", "c", "k", " ", "r", "e", "f", "e", "r", "e", "n", "c", "e">>}],
    [label |-> "Insight", keywords |-> {
        <<"i", "n", "s", "i", "g", "h", "t">>,
        <<"r", "e", "a", "l", "i", "z", "e", "d">>,
        <<"n", "o", "t", "i", "c", "e", "d">>,
        <<"o", "b", "s", "e", "r", "v", "e", "d">>,
        <<"t", "h", "o", "u", "g", "h", "t">>,
        <<"i", "d", "e", "a">>,
        <<"a", "h", "a">>,
        <<"e", "p", "i", "p", "h", "a", "n", "y">>}]>>

\* EntryClassifier.DOMAIN_KEYWORDS
DOMAIN_KEYWORDS == <<
    [label |-> "AI Models", keywords |-> {
        <<"m", "o", "d", "e", "l">>,
        <<"l", "l", "m">>,
        <<"g", "p", "t">>,
        <<"c", "l", "a", "u", "d", "e">>,
        <<"g", "e", "m", "i", "n", "i">>,
        <<"s", "t", "e", "p", "f", "l", "a", "s", "h">>,
        <<"d", "e", "e", "p", "s", "e", "e", "k">>,
        <<"m", "i", "m", "o">>,
        <<"d", "e", "v", "s", "t", "r", "a", "l">>,
        <<"o", "p", "e", "n", "r", "o", "u", "t", "e", "r">>,
        <<"f", "r", "e", "e", " ", "t", "i", "e", "r">>,
        <<"n", "o", "t", "i", "o", "n">>}],
    [label |-> "OpenClaw", keywords |-> {
        <<"o", "p", "e", "n", "c", "l", "a", "w">>,
        <<"a", "g", "e", "n", "t">>,
        <<"w", "o", "r", "k", "f", "l", "o", "w">>,
        <<"s", "k", "i", "l", "l">>,
        <<"t", "o", "o", "l">>,
        <<"a", "u", "t", "o", "m", "a", "t", "i", "o", "n">>,
        <<"s", "y", "n", "c">>,
        <<"d", "a", "t", "a", "b", "a", "s", "e">>}],
    [label |-> "Cost Optimization", keywords |-> {
        <<"c", "o", "s", "t">>,
        <<"p", "r", "i", "c", "e">>,
        <<"$">>,
        <<"b", "u", "d", "g", "e", "t">>,
        <<"f", "r", "e", "e">>,
        <<"t", "i", "e", "r">>,
        <<"r", "o", "u", "t", "i", "n", "g">>,
        <<"s", "a", "v", "i", "n", "g">>,
        <<"o", "p", "t", "i", "m", "i", "z", "a", "t", "i", "o", "n">>,
        <<"v", "a", "l", "u", "e">>}],
    [label |-> "Trading", keywords |-> {
        <<"t", "r", "a", "d", "i", "n", "g">>,
        <<"i", "n", "v", "e", "s", "t">>,
        <<"s", "t", "o", "c", "k">>,
        <<"c", "r", "y", "p", "t", "o">>,
        <<"n", "f", "t">>,
        <<"w", "e", "b", "3">>,
        <<"d", "e", "f", "i">>,
        <<"b", "i", "t", "c", "o", "i", "n">>,
        <<"e", "t", "h", "e", "r", "e", "u", "m">>}],
    [label |-> "Learning", keywords |-> {
        <<"l", "e", "a", "r", "n">>,
        <<"s", "t", "u", "d", "y">>,
        <<"j", "a", "p", "a", "n", "e", "s", "e">>,
        <<"l", "a", "n", "g", "u", "a", "g", "e">>,
        <<"c", "o", "u", "r", "s", "e">>,
        <<"t", "u", "t", "o", "r", "i", "a", "l">>,
        <<"d", "u", "o", "l", "i", "n", "g", "o">>}],
    [label |-> "Process", keywords |-> {
        <<"p", "r", "o", "c", "e", "s", "s">>,
        <<"w", "o", "r", "k", "f", "l", "o", "w">>,
        <<"m", "e", "t", "h", "o", "d">>,
        <<"p", "r", "o", "c", "e", "d", "u", "r", "e">>,
        <<"s", "y", "s", "t", "e", "m">>,
        <<"f", "r", "a", "m", "e", "w", "o", "r", "k">>}]>>

\* EntryClassifier.CERTAINTY_PHRASES
CERTAINTY_PHRASES == <<
    [label |-> "Verified", keywords |-> {
        <<"p", "r", "o", "v", "e", "n">>,
        <<"c", "o", "n", "f", "i", "r", "m", "e", "d">>,
        <<"t", "e", "s", "t", "e", "d">>,
        <<"v", "e", "r", "i", "f", "i", "e", "d">>,
        <<"m", "e", "a", "s", "u", "r", "e", "d">>,
        <<"d", "a", "t", "a", " ", "s", "h", "o", "w", "s">>,
        <<"b", "e", "n", "c", "h", "m", "a", "r", "k", " ", "r", "e", "s", "u", "l", "t">>}],
    [label |-> "Likely", keywords |-> {
        <<"l", "i", "k", "e", "l", "y">>,
        <<"p", "r", "o", "b", "a", "b", "l", "y">>,
        <<"m", "o", "s", "t", " ", "l", "i", "k", "e", "l", "y">>,
        <<"s", "e", "e", "m", "s">>,
        <<"a", "p", "p", "e", "a", "r", "s">>,
        <<"s", "u", "g", "g", "e", "s", "t">>}],
    [label |-> "Speculative", keywords |-> {
        <<"m", "a", "y", "b", "e">>,
        <<"m", "i", "g", "h", "t">>,
        <<"c", "o", "u", "l", "d">>,
        <<"p", "o", "s", "s", "i", "b", "l", "y">>,
        <<"h", "y", "p", "o", "t", "h", "e", "s", "i", "s">>,
        <<"g", "u", "e", "s", "s">>,
        <<"u", "n", "c", "e", "r", "t", "a", "i", "n">>}],
    [label |-> "Opinion", keywords |-> {
        <<"i", " ", "t", "h", "i", "n", "k">>,
        <<"b", "e", "l", "i", "e", "v", "e">>,
        <<"f", "e", "e", "l">>,
        <<"i", "n", " ", "m", "y", " ", "v", "i", "e", "w">>,
        <<"p", "e", "r", "s", "o", "n", "a", "l", "l", "y">>,
        <<"p", "r", "e", "f", "e", "r">>}]>>

\* EntryClassifier.IMPACT_INDICATORS
IMPACT_INDICATORS == <<
    [label |-> "High", keywords |-> {
        <<"c", "r", "i", "t", "i", "c", "a", "l">>,
        <<"i", "m", "p", "o", "r", "t", "a", "n", "t">>,
        <<"m", "u", "s", "t">>,
        <<"e", "s", "s", "e", "n", "t", "i", "a", "l">>,
        <<"k", "e", "y">>,
        <<"m", "a", "j", "o", "r">>,
        <<"s", "i", "g", "n", "i", "f", "i", "c", "a", "n", "t">>,
        <<"g", "a", "m", "e", " ", "c", "h", "a", "n", "g", "e", "r">>}],
    [label |-> "Medium", keywords |-> {
        <<"r", "e", "l", "e", "v", "a", "n", "t">>,
        <<"u", "s", "e", "f", "u", "l">>,
        <<"h", "e", "l", "p", "f", "u", "l">>,
        <<"w", "o", "r", "t", "h">>,
        <<"g", "o", "o", "d">>,
        <<"b", "e", "n", "e", "f", "i", "c", "i", "a", "l">>}],
    [label |-> "Low", keywords |-> {
        <<"m", "i", "n", "o", "r">>,
        <<"s", "m", "a", "l", "l">>,
        <<"s", "l", "i", "g", "h", "t">>,
        <<"m", "a", "r", "g", "i", "n", "a", "l">>,
        <<"n", "i", "c", "e", " ", "t", "o", " ", "h", "a", "v", "e">>}],
    [label |-> "Negligible", keywords |-> {
        <<"n", "e", "g", "l", "i", "g", "i", "b", "l", "e">>,
        <<"t", "i", "n", "y">>,
        <<"m", "i", "n", "i", "m", "a", "l">>,
        <<"b", "a", "r", "e", "l", "y">>,
        <<"i", "n", "s", "i", "g", "n", "i", "f", "i", "c", "a", "n", "t">>}]>>

\* extract_tags: keyword_map
keyword_map == <<
    [label |-> "AI", keywords |-> {
        <<"a", "i">>,
        <<"a", "r", "t", "i", "f", "i", "c", "i", "a", "l", " ", "i", "n", "t", "e", "l", "l", "i", "g", "e", "n", "c", "e">>,
        <<"m", "l">>,
        <<"m", "a", "c", "h", "i", "n", "e", " ", "l", "e", "a", "r", "n", "i", "n", "g">>,
        <<"m", "o", "d", "e", "l">>}],
    [label |-> "OpenRouter", keywords |-> {
        <<"o", "p", "e", "n", "r", "o", "u", "t", "e", "r">>,
        <<"r", "o", "u", "t", "e", "r">>,
        <<"p", "r", "o", "v", "i", "d", "e", "r">>,
        <<"s", "t", "e", "p", "f", "u", "n">>,
        <<"m", "o", "o", "n", "s", "h", "o", "t">>,
        <<"x", "i", "a", "o", "m", "i">>,
        <<"m", "i", "s", "t", "r", "a", "l">>}],
    [label |-> "FreeTier", keywords |-> {
        <<"f", "r", "e", "e">>,
        <<"f", "r", "e", "e", " ", "t", "i", "e", "r">>,
        <<"n", "o", " ", "c", "o", "s", "t">>}],
    [label |-> "Benchmark", keywords |-> {
        <<"b", "e", "n", "c", "h", "m", "a", "r", "k">>,
        <<"t", "e", "s", "t">>,
        <<"s", "c", "o", "r", "e">>,
        <<"p", "e", "r", "f", "o", "r", "m", "a", "n", "c", "e">>,
        <<"s", "w", "e", "-", "b", "e", "n", "c", "h">>,
        <<"a", "i", "m", "e">>}],
    [label |-> "Cost", keywords |-> {
        <<"c", "o", "s", "t">>,
        <<"p", "r", "i", "c", "e">>,
        <<"$">>,
        <<"p", "r", "i", "c", "i", "n", "g">>,
        <<"b", "u", "d", "g", "e", "t">>,
        <<"o", "p", "t", "i", "m", "i", "z", "a", "t", "i", "o", "n">>}],
    [label |-> "Automation", keywords |-> {
        <<"a", "u", "t", "o", "m", "a", "t", "i", "o", "n">>,
        <<"a", "u", "t", "o">>,
        <<"s", "c", "r", "i", "p", "t">>,
        <<"w", "o", "r", "k", "f", "l", "o", "w">>,
        <<"a", "g", "e", "n", "t">>,
        <<"t", "o", "o", "l">>}],
    [label |-> "Coding", keywords |-> {
        <<"c", "o", "d", "e">>,
        <<"p", "r", "o", "g", "r", "a", "m", "m", "i", "n", "g">>,
        <<"d", "e", "v", "e", "l", "o", "p", "m", "e", "n", "t">>,
        <<"s", "w", "e">>,
        <<"c", "o", "d", "i", "n", "g">>}],
    [label |-> "Notion", keywords |-> {
        <<"n", "o", "t", "i", "o", "n">>,
        <<"d", "a", "t", "a", "b", "a", "s", "e">>,
        <<"k", "n", "o", "w", "l", "e", "d", "g", "e", " ", "b", "a", "s", "e">>,
        <<"s", "y", "n", "c">>}],
    [label |-> "Decision", keywords |-> {
        <<"d", "e", "c", "i", "s", "i", "o", "n">>,
        <<"c", "h", "o", "o", "s", "e">>,
        <<"s", "e", "l", "e", "c", "t", "e", "d">>,
        <<"s", "t", "r", "a", "t", "e", "g", "y">>}]>>

\* _estimate_confidence: the words that add one to the score
EvidenceWords == {
    <<"d", "a", "t", "a">>,
    <<"b", "e", "n", "c", "h", "m", "a", "r", "k">>,
    <<"m", "e", "a", "s", "u", "r", "e", "d">>,
    <<"t", "e", "s", "t", "e", "d">>}

\* MAX_TAGS
MAX_TAGS == 7

\* _estimate_confidence: the body length above which the score gains one
LONG_BODY == 500

\* any(kw in text for kw in keywords)
AnyIn(keywords, text) == \E kw \in keywords : Contains(text, kw)

\* the loop of classify_type, classify_domain, classify_certainty and classify_impact:
\* the label of the first row of the table with a keyword in text, or the default
FirstMatch(table, text, default) ==
    LET hits == {k \in 1..Len(table) : AnyIn(table[k].keywords, text)}
    IN  IF hits = {} THEN default ELSE table[Least(hits)].label

\* (title + ' ' + body).lower()
TitleAndBody(title, body) == Lower(title \o <<" ">> \o body)

\* classify_type
ClassifyType(title, body) == FirstMatch(TYPE_KEYWORDS, TitleAndBody(title, body), "Insight")

\* classify_domain
ClassifyDomain(title, body) == FirstMatch(DOMAIN_KEYWORDS, TitleAndBody(title, body), "General")

\* classify_certainty
ClassifyCertainty(body) == FirstMatch(CERTAINTY_PHRASES, Lower(body), "Verified")

\* classify_impact with another default
ClassifyImpact_DefaultLow(title, body) ==
    FirstMatch(IMPACT_INDICATORS, TitleAndBody(title, body), "Low")
\* classify_impact
ClassifyImpact(title, body) == FirstMatch(IMPACT_INDICATORS, TitleAndBody(title, body), "Medium")

\* _estimate_confidence without the addition for a long body
EstimateConfidence_NoLength(body, source) ==
    LET s1 == 7 + (IF source = "MEMORY.md" THEN 1 ELSE 0)
        s3 == s1 + (IF AnyIn(EvidenceWords, Lower(body)) THEN 1 ELSE 0)
    IN  Min(10, Max(1, s3))
\* _estimate_confidence (the title is not used)
EstimateConfidence(body, source) ==
    LET s1 == 7 + (IF source = "MEMORY.md" THEN 1 ELSE 0)
        s2 == s1 + (IF Len(body) > LONG_BODY THEN 1 ELSE 0)
        s3 == s2 + (IF AnyIn(EvidenceWords, Lower(body)) THEN 1 ELSE 0)
    IN  Min(10, Max(1, s3))

\* the tags of keyword_map, in the order of the dict
TagLabels == [k \in 1..Len(keyword_map) |-> keyword_map[k].label]

\* extract_tags: the list tags after the loop over keyword_map
AppendedTags(title, body, section) ==
    LET text == Lower(title \o <<" ">> \o body \o <<" ">> \o section)
        hits == {keyword_map[k].label : k \in {j \in 1..Len(keyword_map) :
                                                AnyIn(keyword_map[j].keywords, text)}}
    IN  SelectSeq(TagLabels, LAMBDA t : t \in hits)

\* the elements of a list
Range(list) == {list[k] : k \in 1..Len(list)}

\* The order in which a set of strings is iterated follows the hashes of the strings,
\* which the interpreter salts anew for every process. A process iterates in one of these
\* orders: the order of keyword_map with any two tags moved to the end, which yields every
\* subset the cut at MAX_TAGS can keep.
HashOrders ==
    {SelectSeq(TagLabels, LAMBDA t : t \notin {a, b}) \o <<b, a>> :
        <<a, b>> \in {p \in Range(TagLabels) \X Range(TagLabels) : p[1] # p[2]}}

\* list(set(tags)) in a process that iterates sets in the given order
ListOfSet(tags, order) == SelectSeq(order, LAMBDA t : t \in Range(tags))

\* list(set(tags)) without the cut at MAX_TAGS
CutTags_Uncut(tags, order) == ListOfSet(tags, order)
\* list(set(tags))[:MAX_TAGS]
CutTags(tags, order) == Take(ListOfSet(tags, order), MAX_TAGS)

\* extract_tags
ExtractTags(title, body, section, order) ==
    CutTags(AppendedTags(title, body, section), order)

\* classify: the metadata but for the tags
Labels(entry) ==
    [content_type     |-> ClassifyType(entry.title, entry.body),
     domain           |-> ClassifyDomain(entry.title, entry.body),
     certainty        |-> ClassifyCertainty(entry.body),
     impact           |-> ClassifyImpact(entry.title, entry.body),
     confidence_score |-> EstimateConfidence(entry.body, entry.source),
     source           |-> entry.source]

\* classify: entry['metadata'], with the tags as the process cuts them
WithTags(labels, tags, order) ==
    [content_type     |-> labels.content_type,
     domain           |-> labels.domain,
     certainty        |-> labels.certainty,
     impact           |-> labels.impact,
     confidence_score |-> labels.confidence_score,
     tags             |-> CutTags(tags, order),
     source           |-> labels.source]

\* classify
Classify(entry, order) ==
    WithTags(Labels(entry), AppendedTags(entry.title, entry.body, entry.section), order)

\* titles, bodies and sections of the entries classified
T_Note == <<"N", "o", "t", "e">>
T_KeyLesson == <<"K", "e", "y", " ", "L", "E", "S", "S", "O", "N">>
B_Plain == <<"p", "l", "a", "i", "n">>
B_Data == <<"D", "a", "t", "a">>
B_Tested == <<"T", "e", "s", "t", "e", "d", ":", " ", "m", "a", "y", "b", "e", " ", "a", " ", "m", "i", "n", "o", "r", " ", "i", "s", "s", "u", "e">>
B_EightTags == <<"a", "i", " ", "r", "o", "u", "t", "e", "r", " ", "f", "r", "e", "e", " ", "t", "e", "s", "t", " ", "c", "o", "s", "t", " ", "a", "u", "t", "o", " ", "c", "o", "d", "e", " ", "n", "o", "t", "i", "o", "n">>
B_NineTags == B_EightTags \o <<" ", "d", "e", "c", "i", "s", "i", "o", "n">>
B_Long == Rep("x", LONG_BODY + 1)
B_LongData == B_Data \o <<" ">> \o Rep("x", LONG_BODY)
S_Strategy == <<"S", "t", "r", "a", "t", "e", "g", "y">>

ClassifyTitles == {T_Note, T_KeyLesson}

ShortBodies == {<<>>, B_Plain, B_Data, B_Tested, B_EightTags, B_NineTags}

LongBodiesK == {B_Long, B_LongData}

\* the entries with a short body: every title, section and provenance
ShortEntries ==
    {[title |-> t, body |-> b, section |-> s, source |-> src] :
        t \in ClassifyTitles, b \in ShortBodies, s \in {<<>>, S_Strategy},
        src \in {"MEMORY.md", "daily"}}

\* the entries with a long body, which match at most one tag
LongEntries ==
    {[title |-> T_Note, body |-> b, section |-> <<>>, source |-> src] :
        b \in LongBodiesK, src \in {"MEMORY.md", "daily"}}

\* the calls: an entry and the order in which the process iterates sets; the long
\* entries are classified in two of the orders only
ClassifyInputs ==
    {[entry |-> e, hash_order |-> o] : e \in ShortEntries, o \in HashOrders}
    \cup {[entry |-> e, hash_order |-> o] :
            e \in LongEntries, o \in {h \in HashOrders : h[Len(h)] = TagLabels[1]
                                                          /\ h[Len(h) - 1] \in {TagLabels[2], TagLabels[3]}}}

InitClassify ==
    /\ fIn \in ClassifyInputs
    /\ fOut = <<>>
    /\ fPc = "in"

\* process_entry calls classify on the entry
ClassifyEntry ==
    /\ fPc = "in"
    /\ fOut' = <<Classify(fIn.entry, fIn.hash_order)>>
    /\ fPc' = "classified"
    /\ UNCHANGED fIn

\* the same process classifies the entry once more
ClassifyAgain ==
    /\ fPc = "classified"
    /\ fOut' = Append(fOut, Classify(fIn.entry, fIn.hash_order))
    /\ fPc' = "again"
    /\ UNCHANGED fIn

\* another run of the program, a process of its own, classifies the entry
ClassifyInNewProcess ==
    /\ fPc = "classified"
    /\ \E labels \in {Labels(fIn.entry)} :
       \E tags \in {AppendedTags(fIn.entry.title, fIn.entry.body, fIn.entry.section)} :
       \E order \in HashOrders :
           fOut' = Append(fOut, WithTags(labels, tags, order))
    /\ fPc' = "rerun"
    /\ UNCHANGED fIn

-----------------------------------------------------------------------------
(* Specifications: each runs one component and leaves the others idle *)

ConvIdle ==
    /\ cText = <<>>
    /\ cLines = <<>>
    /\ cI = 1
    /\ cBlocks = <<>>
    /\ cIter = 0
    /\ cPc = "idle"

ParseIdle ==
    /\ pPhase = "idle"
    /\ pDay = 0
    /\ pN = 0
    /\ pFileLines = 0
    /\ current_section = <<>>
    /\ current_entry = NoEntry
    /\ entry_buffer = <<>>
    /\ all_entries = <<>>
    /\ unique_entries = <<>>
    /\ gSectionOk = FALSE
    /\ gHeads = {}
    /\ gGated = {}
    /\ gClosed = FALSE

SyncIdle ==
    /\ sEntries = <<>>
    /\ dry_run = FALSE
    /\ sRun = 0
    /\ sIdx = 0
    /\ sPc = "idle"
    /\ existing_page_id = 0
    /\ properties = NoProperties
    /\ children = <<>>
    /\ page_id = 0
    /\ stats = ZeroStats
    /\ pages = <<>>
    /\ gReqs = <<>>
    /\ gWrites = <<>>
    /\ gDispatch = <<>>
    /\ gTally = <<>>
    /\ gFaultKinds = <<>>
    /\ gProcessed = <<>>
    /\ gFaults = 0

FunIdle ==
    /\ fIn = <<>>
    /\ fOut = <<>>
    /\ fPc = "idle"

NextConvert ==
    \/ ConvBlank /\ UNCHANGED <<parseVars, syncVars, funVars>>
    \/ ConvHeading /\ UNCHANGED <<parseVars, syncVars, funVars>>
    \/ ConvUList /\ UNCHANGED <<parseVars, syncVars, funVars>>
    \/ ConvOList /\ UNCHANGED <<parseVars, syncVars, funVars>>
    \/ ConvQuote /\ UNCHANGED <<parseVars, syncVars, funVars>>
    \/ ConvCode /\ UNCHANGED <<parseVars, syncVars, funVars>>
    \/ ConvDivider /\ UNCHANGED <<parseVars, syncVars, funVars>>
    \/ ConvTable /\ UNCHANGED <<parseVars, syncVars, funVars>>
    \/ ConvParagraph /\ UNCHANGED <<parseVars, syncVars, funVars>>
    \/ ConvReturn /\ UNCHANGED <<parseVars, syncVars, funVars>>

InitConvertOnly == InitConvert /\ ParseIdle /\ SyncIdle /\ FunIdle

SpecConvert == InitConvertOnly /\ [][NextConvert]_vars

NextExtract ==
    \/ OpenMemoryFile /\ UNCHANGED <<convVars, syncVars, funVars>>
    \/ MissingMemoryFile /\ UNCHANGED <<convVars, syncVars, funVars>>
    \/ OpenDailyFile /\ UNCHANGED <<convVars, syncVars, funVars>>
    \/ MissingDailyFile /\ UNCHANGED <<convVars, syncVars, funVars>>
    \/ ScanSection /\ UNCHANGED <<convVars, syncVars, funVars>>
    \/ ScanHeading /\ UNCHANGED <<convVars, syncVars, funVars>>
    \/ ScanOther /\ UNCHANGED <<convVars, syncVars, funVars>>
    \/ EndMemoryFile /\ UNCHANGED <<convVars, syncVars, funVars>>
    \/ EndDailyFile /\ UNCHANGED <<convVars, syncVars, funVars>>
    \/ ExtractAll /\ UNCHANGED <<convVars, syncVars, funVars>>

InitExtractOnly == InitExtract /\ ConvIdle /\ SyncIdle /\ FunIdle

SpecExtract == InitExtractOnly /\ [][NextExtract]_vars

NextSync ==
    \/ LookupAnswered /\ UNCHANGED <<convVars, parseVars, funVars>>
    \/ LookupRefused /\ UNCHANGED <<convVars, parseVars, funVars>>
    \/ LookupRaises /\ UNCHANGED <<convVars, parseVars, funVars>>
    \/ Prepare /\ UNCHANGED <<convVars, parseVars, funVars>>
    \/ PrepareHangs /\ UNCHANGED <<convVars, parseVars, funVars>>
    \/ DryRunReturn /\ UNCHANGED <<convVars, parseVars, funVars>>
    \/ UpdateOk /\ UNCHANGED <<convVars, parseVars, funVars>>
    \/ UpdateRefused /\ UNCHANGED <<convVars, parseVars, funVars>>
    \/ UpdateRaises /\ UNCHANGED <<convVars, parseVars, funVars>>
    \/ CreateOk /\ UNCHANGED <<convVars, parseVars, funVars>>
    \/ CreateRefused /\ UNCHANGED <<convVars, parseVars, funVars>>
    \/ CreateRaises /\ UNCHANGED <<convVars, parseVars, funVars>>
    \/ TallyAnswered /\ UNCHANGED <<convVars, parseVars, funVars>>
    \/ TallyRefused /\ UNCHANGED <<convVars, parseVars, funVars>>
    \/ TallyRaises /\ UNCHANGED <<convVars, parseVars, funVars>>
    \/ NextRun /\ UNCHANGED <<convVars, parseVars, funVars>>

NextDedup ==
    \/ ExtractAll /\ UNCHANGED <<convVars, syncVars, funVars>>

InitDedupOnly == InitDedup /\ ConvIdle /\ SyncIdle /\ FunIdle

SpecDedup == InitDedupOnly /\ [][NextDedup]_vars

NextPayload ==
    \/ NameCut /\ UNCHANGED <<convVars, parseVars, syncVars>>
    \/ TruncateKeeps /\ UNCHANGED <<convVars, parseVars, syncVars>>
    \/ TruncateAtBoundary /\ UNCHANGED <<convVars, parseVars, syncVars>>
    \/ TruncateHard /\ UNCHANGED <<convVars, parseVars, syncVars>>
    \/ ConvertReturns /\ UNCHANGED <<convVars, parseVars, syncVars>>
    \/ ConvertDiverges /\ UNCHANGED <<convVars, parseVars, syncVars>>

InitPayloadOnly == InitPayload /\ ConvIdle /\ ParseIdle /\ SyncIdle

SpecPayload == InitPayloadOnly /\ [][NextPayload]_vars

NextClassify ==
    \/ ClassifyEntry /\ UNCHANGED <<convVars, parseVars, syncVars>>
    \/ ClassifyAgain /\ UNCHANGED <<convVars, parseVars, syncVars>>
    \/ ClassifyInNewProcess /\ UNCHANGED <<convVars, parseVars, syncVars>>

InitClassifyOnly == InitClassify /\ ConvIdle /\ ParseIdle /\ SyncIdle

SpecClassify == InitClassifyOnly /\ [][NextClassify]_vars

InitSyncOnly == InitSync /\ ConvIdle /\ ParseIdle /\ FunIdle

SpecSync == InitSyncOnly /\ [][NextSync]_vars

-----------------------------------------------------------------------------
(* Properties of MarkdownToNotion.convert *)

\* line begins with an unordered list marker, '- ' or '* '
HasULMarker(line) == StartsWith(line, <<"-", " ">>) \/ StartsWith(line, <<"*", " ">>)

\* the ListItem blocks of the marked lines among lines[a..b], in line order
RECURSIVE ULItems(_, _, _)
ULItems(lines, a, b) ==
    IF a > b THEN <<>>
    ELSE (IF HasULMarker(RStrip(lines[a]))
          THEN <<[type |-> "bulleted_list_item", text |-> Strip(Drop(RStrip(lines[a]), 2))]>>
          ELSE <<>>) \o ULItems(lines, a + 1, b)

\* C9: an iteration of convert at a line that begins with '- ' or '* ' advances
\* the index past that line and appends exactly the ListItem blocks, marker
\* stripped, of the marked lines it advances past, so that no consumed line is
\* evaluated again.
C9_UnorderedRunEmitted ==
    [][(/\ cPc = "loop"
        /\ cI <= Len(cLines)
        /\ HasULMarker(RStrip(cLines[cI]))
        /\ cIter' = cIter + 1)
       => (/\ cI' > cI
           /\ cBlocks' = cBlocks \o ULItems(cLines, cI, cI' - 1))]_vars

\* the part of C9 the code keeps: a run of '- ' lines
C9_DashRunEmitted ==
    [][(/\ cPc = "loop"
        /\ cI <= Len(cLines)
        /\ StartsWith(RStrip(cLines[cI]), <<"-", " ">>)
        /\ \A k \in cI..Len(cLines) : ~StartsWith(RStrip(cLines[k]), <<"*", " ">>)
        /\ cIter' = cIter + 1)
       => (/\ cI' > cI
           /\ cBlocks' = cBlocks \o ULItems(cLines, cI, cI' - 1))]_vars

\* the line kinds C10 speaks of, by their markers
C10_Kind(line) ==
    IF Strip(line) = <<>> THEN "blank"
    ELSE IF StartsWith(line, <<"#", " ">>) THEN "h1"
    ELSE IF StartsWith(line, <<"#", "#", " ">>) THEN "h2"
    ELSE IF StartsWith(line, <<"#", "#", "#", " ">>) THEN "h3"
    ELSE IF StartsWith(line, <<"-", " ">>) THEN "dash"
    ELSE IF StartsWith(line, <<"*", " ">>) THEN "other"
    ELSE IF NumberedPrefix(line) # <<>> THEN "numbered"
    ELSE IF StartsWith(line, <<">", " ">>) THEN "quote"
    ELSE IF StartsWith(line, Fence) \/ Strip(line) \in Dividers \/ Count(line, "|") >= 3
         THEN "other"
    ELSE "paragraph"

\* the one block C10 expects of a non-blank line, none of a blank line
C10_LineBlocks(rawLine) ==
    LET line == RStrip(rawLine)
        kind == C10_Kind(line)
    IN  CASE kind = "blank"     -> <<>>
          [] kind = "h1"        -> <<[type |-> "heading", level |-> 1, text |-> Drop(line, 2)]>>
          [] kind = "h2"        -> <<[type |-> "heading", level |-> 2, text |-> Drop(line, 3)]>>
          [] kind = "h3"        -> <<[type |-> "heading", level |-> 3, text |-> Drop(line, 4)]>>
          [] kind = "dash"      ->
                <<[type |-> "bulleted_list_item", text |-> Strip(Drop(line, 2))]>>
          [] kind = "numbered"  ->
                <<[type |-> "bulleted_list_item",
                   text |-> Strip(Drop(line, Len(NumberedPrefix(line))))]>>
          [] kind = "quote"     -> <<[type |-> "quote", text |-> Drop(line, 2)]>>
          [] kind = "paragraph" -> <<[type |-> "paragraph", text |-> line]>>
          [] OTHER              -> <<>>

RECURSIVE C10_Expected(_)
C10_Expected(lines) ==
    IF lines = <<>> THEN <<>>
    ELSE C10_LineBlocks(Head(lines)) \o C10_Expected(Tail(lines))

C10_Input(lines) == \A k \in 1..Len(lines) : C10_Kind(RStrip(lines[k])) # "other"

\* C10: for input made only of heading, '- ' list, numbered list, blockquote,
\* paragraph and blank lines, convert returns, in line order, exactly one
\* block per non-blank line, of the kind of the first matching rule, and none
\* per blank line.
C10_BlockSequenceFidelity ==
    (cPc = "done" /\ C10_Input(cLines)) => cBlocks = C10_Expected(cLines)

\* C10's example: '## H', '- a', '- b', blank, 'para' has been converted to
\* [Heading(2,'H'), ListItem('a'), ListItem('b'), Paragraph('para')]
C10_Witness ==
    /\ cPc = "done"
    /\ cLines = <<L_H2, L_Da, L_Db, L_Blank, L_Para>>
    /\ cBlocks = <<[type |-> "heading", level |-> 2, text |-> <<"H">>],
                   [type |-> "bulleted_list_item", text |-> <<"a">>],
                   [type |-> "bulleted_list_item", text |-> <<"b">>],
                   [type |-> "paragraph", text |-> L_Para]>>

-----------------------------------------------------------------------------
(* Properties of MemoryParser *)

\* the dedup key of the specification: (title, date-or-empty, body[:200])
KeyOf(e) == <<e.title, e.date, Take(e.body, DEDUP_BODY_PREFIX)>>

\* the positions of entries that hold the first occurrence of their key
FirstOccurrences(entries) ==
    {k \in 1..Len(entries) : \A j \in 1..(k - 1) : KeyOf(entries[j]) # KeyOf(entries[k])}

\* the elements of entries at the positions in S, in their order
RECURSIVE SubseqAt(_, _, _)
SubseqAt(entries, S, k) ==
    IF k > Len(entries) THEN <<>>
    ELSE (IF k \in S THEN <<entries[k]>> ELSE <<>>) \o SubseqAt(entries, S, k + 1)

\* C6: the list extract_all_entries returns holds no two entries with the same
\* (title, date-or-empty, first 200 characters of body), and it is made, in
\* order, of first occurrences of their key in the Aggregate entries followed
\* by the Periodic entries.
C6_DedupInvariant ==
    pPhase = "done" =>
        /\ \A j, k \in 1..Len(unique_entries) :
               j # k => KeyOf(unique_entries[j]) # KeyOf(unique_entries[k])
        /\ \E S \in SUBSET FirstOccurrences(all_entries) :
               unique_entries = SubseqAt(all_entries, S, 1)

\* two scanned entries whose bodies differ only after the first 200
\* characters had the same key, and only the first was returned
C6_Witness ==
    /\ pPhase = "done"
    /\ Len(unique_entries) >= 1
    /\ Len(unique_entries) < Len(all_entries)
    /\ \E j, k \in 1..Len(all_entries) :
        /\ j < k
        /\ KeyOf(all_entries[j]) = KeyOf(all_entries[k])
        /\ all_entries[j].body # all_entries[k].body
        /\ \A u \in 1..Len(unique_entries) : unique_entries[u].body # all_entries[k].body

\* C7: every level-3 heading line inside a recognized section yields exactly
\* one entry of the scan, with a title and a body, also when the body is empty.
C7_OneEntryPerHeading ==
    pPhase = "done" =>
        \A h \in gHeads : Cardinality({k \in 1..Len(all_entries) : all_entries[k].id = h}) = 1

\* C8: a level-3 heading under a level-2 section that is not whitelisted never
\* opens an entry and never yields one, whatever lines come before and after.
C8_SectionGating ==
    /\ current_entry.id \notin gGated
    /\ \A k \in 1..Len(all_entries) : all_entries[k].id \notin gGated
    /\ \A k \in 1..Len(unique_entries) : unique_entries[k].id \notin gGated

\* a level-3 heading was scanned under a section that is not whitelisted, in a
\* file that also yields an entry
C8_Witness ==
    /\ pPhase = "done"
    /\ gGated # {}
    /\ unique_entries # <<>>
    /\ \E g \in gGated : \E k \in 1..Len(unique_entries) : unique_entries[k].id < g

-----------------------------------------------------------------------------
(* Properties of SyncOrchestrator *)

Entries == 1..Len(sEntries)

\* C1: in a second (or later) run of sync, not dry-run, over the same entries,
\* with every request of every run accepted and every lookup answered from the
\* store, no create request is dispatched and each entry gets exactly one
\* update request
C1_IdempotentResync ==
    (sRun >= 2 /\ ~dry_run /\ gFaults = 0) =>
        /\ \A k \in Entries : gWrites[k] \in {<<>>, <<"update">>}
        /\ sPc = "done" => \A k \in Entries : gWrites[k] = <<"update">>

\* a second run over two entries has ended, with no failed request in either run
C1_Witness ==
    /\ sRun = 2 /\ sPc = "done" /\ ~dry_run /\ gFaults = 0
    /\ Len(sEntries) = 2
    /\ stats.failed = 0

\* the write request w conforms to entry e and to the lookup result r
C2_Conforms(w, e, r) ==
    /\ w.entry = e.id
    /\ w.kind = (IF r # 0 THEN "update" ELSE "create")
    /\ w.target = r
    /\ w.properties.source_file = e.file
    /\ w.properties.has_body = (Len(e.body) > MIN_BODY_LENGTH)
    /\ w.kind = "update" => w.children = <<>>
    /\ w.kind = "create" =>
        /\ (w.children # <<>>) = (Len(e.body) > MIN_BODY_LENGTH)
        /\ Len(e.body) > MIN_BODY_LENGTH => w.children = Convert(e.body)

Ended(ways) == Cardinality({k \in Entries : gDispatch[k] \in ways})

\* C3: at the end of a run that is not a dry run, created is the number of
\* entries whose create request succeeded, updated the number whose update
\* request succeeded, failed the number whose dispatch failed or raised, and
\* the three sum to the number of entries
C3_SummaryAccurate ==
    (sPc = "done" /\ ~dry_run) =>
        /\ stats.created = Ended({"create_ok"})
        /\ stats.updated = Ended({"update_ok"})
        /\ stats.failed = Ended({"create_failed", "update_failed", "raised"})
        /\ stats.created + stats.updated + stats.failed = Len(sEntries)

\* process_entry met a failure on entry k: its create or update was rejected,
\* one of its requests got no answer that is JSON, or something raised
C4_Failure(k) ==
    \/ gDispatch[k] \in {"create_failed", "update_failed", "raised"}
    \/ "malformed" \in gFaultKinds[k]
    \/ "raised" \in gFaultKinds[k]

\* C4: an entry on which process_entry met a failure (a rejected create or
\* update, a transport error, an exception) is tallied as failed, and no entry
\* all of whose requests were answered and accepted is, in a run that is not a
\* dry run; every entry is processed at most once, and exactly once when the
\* run ends; the pages created by entries of the run are in the store
C4_FailureIsolation ==
    /\ \A k \in Entries : (C4_Failure(k) /\ gTally[k] # "none") => gTally[k] = "failed"
    /\ \A k \in Entries :
        (gFaultKinds[k] = {} /\ ~dry_run) => gTally[k] # "failed"
    /\ \A k \in Entries : gProcessed[k] <= 1
    /\ sPc = "done" => \A k \in Entries : gProcessed[k] = 1 /\ gTally[k] # "none"
    /\ Ended({"create_ok"}) <= Len(pages)

\* what of C4 the except clause and the return values do give: a write that
\* is refused or raises, and a lookup that raises, are tallied as failed, and
\* the run goes on to the next entry
C4_RefusedWriteCountedFailed ==
    /\ \A k \in Entries :
        gDispatch[k] \in {"create_failed", "update_failed", "raised"} => gTally[k] = "failed"
    /\ \A k \in Entries : gProcessed[k] <= 1
    /\ sPc = "done" => \A k \in Entries : gProcessed[k] = 1 /\ gTally[k] # "none"

\* C5: an entry for which a request of process_entry (the lookup, the create
\* or the update) was answered with something that is not JSON is tallied as
\* failed, not as created or updated
C5_MalformedCountedFailed ==
    \A k \in Entries :
        ("malformed" \in gFaultKinds[k] /\ gTally[k] # "none") => gTally[k] = "failed"

-----------------------------------------------------------------------------
(* Properties of the emitted texts *)

\* C11: the title sent as Name has at most 100 characters, the text
\* _truncate_text returns for max_len has at most max_len characters (2000 for
\* Body), and the text of every block convert emits, whatever its kind, has at
\* most 2000 characters
C11_TruncationBound ==
    /\ fPc = "named" => Len(fOut) <= MAX_TITLE_LENGTH
    /\ fPc \in {"kept", "boundary", "hard"} => Len(fOut) <= fIn.max_len
    /\ fPc = "converted" =>
        \A k \in 1..Len(fOut) :
            fOut[k].type # "divider" => Len(fOut[k].text) <= MAX_BLOCK_TEXT

\* a body longer than 2000 characters was cut to exactly 2000
C11_Witness ==
    /\ fPc = "hard"
    /\ fIn.max_len = MAX_BODY_LENGTH
    /\ Len(fIn.body) > MAX_BODY_LENGTH
    /\ Len(fOut) = MAX_BODY_LENGTH

\* C12: when _truncate_text cuts a text longer than max_len at a sentence
\* boundary (it returns from the loop, without the ellipsis), the text it
\* returns is longer than half of max_len
C12_BoundaryCutKeepsHalf ==
    fPc = "boundary" => 2 * Len(fOut) > fIn.max_len

-----------------------------------------------------------------------------
(* Properties of EntryClassifier *)

\* the keywords of a table
AllKeywords(table) == UNION {table[k].keywords : k \in 1..Len(table)}

\* title and body match no keyword of any of the four taxonomies
C13_NoKeyword(entry) ==
    ~AnyIn(AllKeywords(TYPE_KEYWORDS) \cup AllKeywords(DOMAIN_KEYWORDS)
           \cup AllKeywords(CERTAINTY_PHRASES) \cup AllKeywords(IMPACT_INDICATORS),
           TitleAndBody(entry.title, entry.body))

\* the four labels are the defaults
C13_DefaultLabels(meta) ==
    /\ meta.content_type = "Insight"
    /\ meta.domain = "General"
    /\ meta.certainty = "Verified"
    /\ meta.impact = "Medium"

\* 7, or 8 for an entry of MEMORY.md
C13_BaseScore(entry) == IF entry.source = "MEMORY.md" THEN 8 ELSE 7

\* C13 as stated: an entry whose title and body match no keyword of the four taxonomies
\* is classified Insight, General, Verified, Medium with confidence score 7, or 8 if it
\* comes from MEMORY.md.
C13_Defaults ==
    fPc = "classified" /\ C13_NoKeyword(fIn.entry) =>
        /\ C13_DefaultLabels(fOut[1])
        /\ fOut[1].confidence_score = C13_BaseScore(fIn.entry)

\* C13 as amended: an entry whose title and body match no keyword of the four taxonomies
\* is classified Insight, General, Verified, Medium; its confidence score is 7, or 8 if
\* it comes from MEMORY.md, when moreover its body is at most 500 characters long and
\* contains no evidentiary word.
C13_DefaultsOfPlainBody ==
    fPc = "classified" /\ C13_NoKeyword(fIn.entry) =>
        /\ C13_DefaultLabels(fOut[1])
        /\ (Len(fIn.entry.body) <= LONG_BODY /\ ~AnyIn(EvidenceWords, Lower(fIn.entry.body)))
               => fOut[1].confidence_score = C13_BaseScore(fIn.entry)

\* an entry of MEMORY.md with a body of some words, none a keyword, classified by default
C13_Witness ==
    /\ fPc = "classified"
    /\ fIn.entry.body = B_Plain /\ fIn.entry.source = "MEMORY.md"
    /\ C13_NoKeyword(fIn.entry)
    /\ C13_DefaultLabels(fOut[1])
    /\ fOut[1].confidence_score = 8

\* two metadata agree in every field, the tags taken as a set
C14_SameMetadata(m1, m2) ==
    /\ m1.content_type = m2.content_type
    /\ m1.domain = m2.domain
    /\ m1.certainty = m2.certainty
    /\ m1.impact = m2.impact
    /\ m1.confidence_score = m2.confidence_score
    /\ m1.source = m2.source
    /\ Range(m1.tags) = Range(m2.tags)

\* C14: two classify calls on the same entry, whether by one run of the program or by
\* two, yield the same metadata in every field, the set of tags included, also when
\* more than 7 tags match.
C14_Deterministic ==
    fPc \in {"again", "rerun"} => C14_SameMetadata(fOut[1], fOut[2])

\* more than 7 tags match and a second run has classified the entry
C14_Witness ==
    /\ fPc = "rerun"
    /\ Len(AppendedTags(fIn.entry.title, fIn.entry.body, fIn.entry.section)) > MAX_TAGS

\* within one process the two calls agree
C14_SameProcessAgrees ==
    fPc = "again" => fOut[1] = fOut[2]

\* the tags whose keyword set matches the lowercased title + ' ' + body + ' ' + section
C15_Matching(entry) ==
    LET text == Lower(entry.title \o <<" ">> \o entry.body \o <<" ">> \o entry.section)
    IN  {keyword_map[k].label : k \in {j \in 1..Len(keyword_map) :
            \E kw \in keyword_map[j].keywords :
                \E p \in 1..Len(text) : StartsWith(Drop(text, p - 1), kw)}}

\* C15: the tags returned by extract_tags hold no duplicate, number at most 7, are each
\* a tag whose keyword set matches the lowercased title, body and section, and are all
\* the matching tags when at most 7 match.
C15_TagsSound ==
    fPc = "classified" =>
        \E matching \in {C15_Matching(fIn.entry)} :
        \E tags \in {fOut[1].tags} :
            /\ \A i, j \in 1..Len(tags) : tags[i] = tags[j] => i = j
            /\ Len(tags) <= MAX_TAGS
            /\ Range(tags) \subseteq matching
            /\ Cardinality(matching) <= MAX_TAGS => Range(tags) = matching

\* all nine tags match and seven are returned
C15_Witness ==
    /\ fPc = "classified"
    /\ fIn.entry.body = B_NineTags
    /\ Len(fOut[1].tags) = MAX_TAGS
    /\ Cardinality(Range(fOut[1].tags)) = MAX_TAGS

\* two tags match and both are returned
C15_WitnessFew ==
    /\ fPc = "classified"
    /\ Cardinality(C15_Matching(fIn.entry)) = 2
    /\ Range(fOut[1].tags) = {"AI", "Decision"}

\* the additions the entry earns: Aggregate provenance, a body of more than 500
\* characters, an evidentiary word in the body
C16_Additions(entry) ==
    {a \in {"aggregate", "long", "evidence"} :
        \/ a = "aggregate" /\ entry.source = "MEMORY.md"
        \/ a = "long" /\ Len(entry.body) >= LONG_BODY + 1
        \/ a = "evidence" /\ \E w \in EvidenceWords : Contains(Lower(entry.body), w)}

\* C16: the confidence score is 7 plus one for each of Aggregate provenance, a body
\* longer than 500 characters and an evidentiary keyword in the body, clamped to
\* [1,10]; it is an integer between 1 and 10.
C16_ConfidenceRule ==
    fPc = "classified" =>
        \E raw \in {7 + Cardinality(C16_Additions(fIn.entry))} :
            /\ fOut[1].confidence_score = (IF raw > 10 THEN 10 ELSE IF raw < 1 THEN 1 ELSE raw)
            /\ fOut[1].confidence_score \in 1..10

\* an entry of MEMORY.md with a long body that holds an evidentiary word scores 10
C16_Witness ==
    /\ fPc = "classified"
    /\ fIn.entry.body = B_LongData /\ fIn.entry.source = "MEMORY.md"
    /\ fOut[1].confidence_score = 10

-----------------------------------------------------------------------------
(* Properties of SyncOrchestrator, continued *)

\* C17: in a dry run no step dispatches a create or an update request and no step
\* changes the store: its records and their properties stay as they were; the
\* requests of an entry are lookups only.
C17_DryRunWritesNothing ==
    [][dry_run =>
        /\ pages' = pages
        /\ \A k \in 1..Len(gWrites') : gWrites'[k] = <<>>
        /\ \A i \in 1..Len(gReqs') : gReqs'[i].kind = "query"]_vars

\* a dry run over two entries has ended against a store that holds a page: both
\* entries were looked up, and the page is as it was
C17_Witness ==
    /\ dry_run /\ sPc = "done"
    /\ Len(sEntries) = 2
    /\ \A k \in Entries : gProcessed[k] = 1
    /\ pages = <<OldPage>>

\* the first run, not a dry run, with every request accepted and answered: it began
\* with an empty store
C19_FirstCleanRun == sRun = 1 /\ ~dry_run /\ gFaults = 0

\* C19: distinct entries never overwrite each other's record. In a run that is not a
\* dry run, over entries of distinct titles, against a store that was empty and accepts
\* every request, no update request is issued (a page it could reach was created from
\* an entry of another title), and when the run has ended the store holds one record
\* per entry.
C19_NoOverwrite ==
    C19_FirstCleanRun =>
        /\ \A k \in Entries : gWrites[k] \in {<<>>, <<"create">>}
        /\ sPc = "done" =>
               /\ Len(pages) = Len(sEntries)
               /\ \A k \in Entries : \E p \in 1..Len(pages) :
                      pages[p].properties.name = sEntries[k].title

\* such a run over two entries of one file has ended
C19_Witness ==
    /\ C19_FirstCleanRun /\ sPc = "done"
    /\ Len(sEntries) = 2
    /\ sEntries[1].file = sEntries[2].file
    /\ sEntries[1].title # sEntries[2].title

-----------------------------------------------------------------------------
(* Properties of MarkdownToNotion.convert, continued *)

\* C18: convert terminates: every iteration of its loop moves the line index
\* forward, so there are never more iterations than lines.
C18_EveryIterationAdvances ==
    [][cIter' = cIter + 1 => (cI' > cI /\ cIter' <= Len(cLines))]_vars

\* convert has returned from a text of several lines
C18_Witness ==
    /\ cPc = "done"
    /\ Len(cLines) >= 3
    /\ cIter >= 2

-----------------------------------------------------------------------------
(* Properties of MemoryParser, continued *)

\* C20: the body of an entry is made of the lines between its heading and the next
\* level-2 or level-3 heading. Once a level-2 heading has been scanned, no line is
\* added to the buffer of the entry that was open before it, an entry already emitted
\* keeps its body, and no entry is emitted a second time.
C20_BodyEndsAtSection ==
    [][/\ (gClosed /\ gClosed' /\ current_entry' = current_entry) =>
            Len(entry_buffer') <= Len(entry_buffer)
       /\ \A k \in 1..Len(all_entries) : all_entries'[k] = all_entries[k]
       /\ \A j, k \in 1..Len(all_entries') :
            all_entries'[j].id = all_entries'[k].id => j = k]_vars

\* an entry with a body was closed by a level-2 heading of a section that is not
\* recognized, and a line of that section was scanned after it
C20_Witness ==
    /\ pPhase = "memory_scan"
    /\ gClosed /\ ~gSectionOk
    /\ current_entry # NoEntry
    /\ \E k \in 1..Len(all_entries) : all_entries[k].id = current_entry.id
    /\ pN > current_entry.id + 2

-----------------------------------------------------------------------------
(* Properties of SyncOrchestrator._truncate_text, continued *)

\* the indices, past half of max_len, of the last occurrence of each separator that
\* lies within the first max_len characters of text
C21_Qualifying(text, max_len) ==
    {i \in {RFind(text, Separators[k], max_len) : k \in 1..Len(Separators)} : 2 * i > max_len}

\* C21: of a text longer than max_len, _truncate_text keeps the part up to the nearest
\* boundary, the separator occurrence of greatest index within max_len that lies past
\* half of max_len, whichever of the five separators it is; when there is none it
\* cuts at max_len - 3 and appends the ellipsis.
C21_CutsAtNearestBoundary ==
    fPc \in {"boundary", "hard"} =>
        \E q \in {C21_Qualifying(fIn.body, fIn.max_len)} :
            IF q = {}
            THEN fPc = "hard"
                 /\ fOut = Strip(Take(fIn.body, fIn.max_len - 3)) \o <<".", ".", ".">>
            ELSE fPc = "boundary"
                 /\ \E g \in q : /\ \A i \in q : i <= g
                                  /\ fOut = Strip(Take(fIn.body, g + 1))

\* a text with two different boundaries past half of max_len was cut
C21_Witness ==
    /\ fPc = "boundary"
    /\ Cardinality(C21_Qualifying(fIn.body, fIn.max_len)) = 2

-----------------------------------------------------------------------------
(* Properties of MarkdownToNotion.convert: code fences *)

\* the index of the closing fence of the fence opened at line o: the first later line
\* that is the bare fence, or one past the last line when there is none
C22_Close(lines, o) ==
    LET closing == {j \in (o + 1)..Len(lines) : Strip(lines[j]) = Fence}
    IN  IF closing = {} THEN Len(lines) + 1 ELSE Least(closing)

\* the Code block of the fence opened at line o: the lines up to the closing fence,
\* without trailing blanks, under the language token of the opening line
C22_CodeBlock(lines, o) ==
    LET n     == C22_Close(lines, o) - o - 1
        token == Strip(Drop(lines[o], 3))
    IN  [type |-> "code",
         text |-> Take(Join([k \in 1..n |-> RStrip(lines[o + k])], NL), MAX_BLOCK_TEXT),
         language |-> IF token = <<>> THEN PlainText ELSE token]

\* C22: an iteration of convert at a line that starts with the fence appends exactly
\* one Code block, made of all the lines up to the closing fence (or up to the end of
\* the input when there is none) and carrying the language token of the opening
\* line, and moves the index to the line after the closing fence, so that none of
\* those lines is read by another rule.
C22_FenceIsOneCodeBlock ==
    [][(cPc = "loop" /\ cIter' = cIter + 1 /\ StartsWith(cLines[cI], Fence)) =>
          /\ cBlocks' = Append(cBlocks, C22_CodeBlock(cLines, cI))
          /\ cI' = Min(C22_Close(cLines, cI) + 1, Len(cLines) + 1)]_vars

\* a fence with a language token and a line of code was closed and emitted
C22_Witness ==
    /\ cPc = "loop"
    /\ cI >= 4
    /\ StartsWith(cLines[cI - 3], Fence) /\ Len(cLines[cI - 3]) > 3
    /\ Strip(cLines[cI - 1]) = Fence
    /\ cBlocks # <<>>
    /\ cBlocks[Len(cBlocks)] = [type |-> "code", text |-> cLines[cI - 2],
                                language |-> Drop(cLines[cI - 3], 3)]
    /\ cBlocks[Len(cBlocks)].text # <<>>

\* an open fence that is never closed takes the rest of the input
C22_WitnessUnclosed ==
    /\ cPc = "loop"
    /\ cI = Len(cLines) + 1 /\ Len(cLines) = 3
    /\ StartsWith(cLines[1], Fence)
    /\ C22_Close(cLines, 1) = 4
    /\ Len(cBlocks) = 1 /\ cBlocks[1].type = "code" /\ cBlocks[1].text # <<>>

-----------------------------------------------------------------------------
(* Properties of MemoryParser.extract_all_entries, continued *)

\* entry e is among the entries returned
C23_Survives(e) == \E u \in 1..Len(unique_entries) : unique_entries[u] = e

\* C23: deduplication never merges entries with different keys: two extracted entries
\* that differ in title, in date-or-empty or in the first 200 characters of body are
\* both returned by extract_all_entries.
C23_DifferentKeysSurvive ==
    pPhase = "done" =>
        \A j, k \in 1..Len(all_entries) :
            KeyOf(all_entries[j]) # KeyOf(all_entries[k]) =>
                C23_Survives(all_entries[j]) /\ C23_Survives(all_entries[k])

\* three entries with three different keys were deduplicated
C23_Witness ==
    /\ pPhase = "done"
    /\ Len(all_entries) = 3
    /\ \A j, k \in 1..3 : j # k => KeyOf(all_entries[j]) # KeyOf(all_entries[k])
    /\ all_entries[1].title # all_entries[2].title
    /\ all_entries[1].date # all_entries[3].date

====
